---- MODULE Spec2Model ----
(***************************************************************************)
(* Lua Linear: vectors and matrices as views on reference-counted buffers. *)
(* The model follows src/src/linear_core.c: the userdata objects           *)
(* (struct linear_vector, struct linear_matrix), the shared allocation     *)
(* (struct linear_data followed by the doubles) and the structural         *)
(* functions that create, derive, read, write and collect views.           *)
(***************************************************************************)
EXTENDS Integers, Sequences, FiniteSets, Bags, TLC

\* ------------------------------------------------------------------ bounds

\* userdata objects that exist at the same time
MaxViews == 3
\* allocations (struct linear_data + doubles) that exist at the same time
MaxBufs == 2
\* largest length, rows or cols given to a constructor
MaxDim == 2
\* doubles that calloc can hold allocated at the same time
MaxDoubles == 6
\* element values are 0..MaxVal
MaxVal == 1
\* elements that hold a value other than 0 at the same time
MaxNonZero == 1
\* arguments of a call of unwind or reshape
MaxArgs == 3

BufIds == 1..MaxBufs
Values == 0..MaxVal

\* lua_Integer arguments tried for an index: negative, zero, valid, too large
LuaInts == (0 - 1)..(MaxDim + 1)
\* an optional integer argument: <<>> is none/nil, <<i>> is the integer i
OptInts == {<<>>} \cup {<<i>> : i \in LuaInts}

\* size_t arithmetic is modulo SizeMod (the width is scaled down from 2^64;
\* every extent of the model is far below it)
SizeMod == 2 ^ 16
\* INT_MAX, scaled with the width of size_t
IntMax == (2 ^ 15) - 1

\* (size_t)i for a lua_Integer i
ToSize(i) == i % SizeMod

\* luaL_optinteger(L, index, def)
OptInteger(a, def) == IF a = <<>> THEN def ELSE a[1]

\* the argument lists tried for sub on a matrix: a row range alone, a column
\* range alone, and four integers that are valid for some matrix
\* sub on a matrix with four integers that are valid for some matrix
SubMatrixInts ==
    {<<<<a>>, <<b>>, <<c>>, <<d>>>> : a \in 1..MaxDim, b \in 1..MaxDim,
                                      c \in 1..MaxDim, d \in 1..MaxDim}

SubMatrixCalls ==
    {<<a, <<>>, c, <<>>>> : a \in OptInts, c \in OptInts}
        \cup {<<<<>>, b, <<>>, d>> : b \in OptInts, d \in OptInts}
        \cup SubMatrixInts

Orders == {"row", "col"}

\* ------------------------------------------------------------------- state

VARIABLES
    views,  \* the userdata objects that exist, a bag of struct linear_vector
            \* and struct linear_matrix values
    bufs,   \* buffer id -> allocation (struct linear_data and its doubles)
    last,   \* the call that has just returned: function, status, pushed view
    iter,   \* the generic for loop over a matrix: operand, control value
    uaf     \* a freed allocation was used or freed again

vars == <<views, bufs, last, iter, uaf>>

\* no userdata
NoView ==
    [kind |-> "none", data |-> 0, values |-> 0, length |-> 0, inc |-> 0,
     rows |-> 0, cols |-> 0, ld |-> 0, order |-> "row"]

\* struct linear_vector: data is the id of the allocation, values the offset
\* of the first component in its doubles
VectorView(length, inc, data, values) ==
    [kind |-> "vector", data |-> data, values |-> values, length |-> length,
     inc |-> inc, rows |-> 0, cols |-> 0, ld |-> 0, order |-> "row"]

\* struct linear_matrix
MatrixView(rows, cols, ld, order, data, values) ==
    [kind |-> "matrix", data |-> data, values |-> values, length |-> 0,
     inc |-> 0, rows |-> rows, cols |-> cols, ld |-> ld, order |-> order]

\* no allocation under the id
NoBuf == [live |-> FALSE, refs |-> 0, size |-> 0, vals |-> <<>>]

\* calloc(1, sizeof(struct linear_data) + n * sizeof(double)); refs = 1
NewBuf(n) == [live |-> TRUE, refs |-> 1, size |-> n, vals |-> [k \in 1..n |-> 0]]

\* a call's outcome: status is "ok" or the message of the error raised, res
\* the view pushed (NoView when none is)
Call(op, status, res) == [op |-> op, status |-> status, res |-> res]
NoCall == Call("none", "ok", NoView)
Ok(view) == [status |-> "ok", view |-> view]
Err(msg) == [status |-> msg, view |-> NoView]

\* no generic for loop is running
NoIter == [X |-> NoView, ctl |-> 0, yielded |-> <<>>]

Live == BagToSet(views)
LiveVectors == {x \in Live : x.kind = "vector"}
LiveMatrices == {x \in Live : x.kind = "matrix"}

\* lua_newuserdata has room for one more userdata
HasSlot == BagCardinality(views) < MaxViews

\* the doubles of the live allocations
RECURSIVE Allocated(_)
Allocated(b) == IF b = 0 THEN 0 ELSE bufs[b].size + Allocated(b - 1)

\* calloc can allocate n doubles
HasBuf(n) ==
    /\ \E b \in BufIds : ~bufs[b].live
    /\ Allocated(MaxBufs) + n <= MaxDoubles
\* calloc: the id of the new allocation
NewBufId == CHOOSE b \in BufIds : ~bufs[b].live
               /\ \A c \in BufIds : c < b => bufs[c].live

\* the caller is between two calls
Idle == last.op = "none"

Init ==
    /\ views = EmptyBag
    /\ bufs = [b \in BufIds |-> NoBuf]
    /\ last = NoCall
    /\ iter = NoIter
    /\ uaf = FALSE

\* the caller takes the results (or catches the error) of the call
Return ==
    /\ ~Idle
    /\ last' = NoCall
    /\ UNCHANGED <<views, bufs, iter, uaf>>

\* ------------------------------------------------------------ constructors

\* linear_create_vector
CreateVector(length) ==
    /\ HasSlot /\ HasBuf(length)
    /\ views' = views (+) SetToBag({VectorView(length, 1, NewBufId, 0)})
    /\ bufs' = [bufs EXCEPT ![NewBufId] = NewBuf(length)]
    /\ last' = Call("vector", "ok", VectorView(length, 1, NewBufId, 0))

\* size = luaL_checkinteger(L, 1); size >= 1 && size <= INT_MAX
DimensionOk(n) == ToSize(n) >= 1 /\ ToSize(n) <= IntMax

\* the check of linear_vector
VectorStatus(n) == IF DimensionOk(n) THEN "ok" ELSE "bad dimension"

\* linear_vector
Vector(n) ==
    /\ Idle
    /\ LET size == ToSize(n) IN
       IF VectorStatus(n) # "ok"
       THEN /\ last' = Call("vector", "bad dimension", NoView)
            /\ UNCHANGED <<views, bufs>>
       ELSE /\ size <= MaxDim
            /\ CreateVector(size)
    /\ UNCHANGED <<iter, uaf>>

\* linear_create_matrix
CreateMatrix(rows, cols, order) ==
    LET X == MatrixView(rows, cols, IF order = "row" THEN cols ELSE rows, order,
                        NewBufId, 0)
    IN
    /\ HasSlot /\ HasBuf(rows * cols)
    /\ views' = views (+) SetToBag({X})
    /\ bufs' = [bufs EXCEPT ![NewBufId] = NewBuf(rows * cols)]
    /\ last' = Call("matrix", "ok", X)

\* the third argument of matrix: absent (""), or a string
OrderArgs == {"", "row", "col", "rowmajor"}

\* a linear_checkorder that takes any string but "row" for "col"
CheckOrderLax(o) ==
    IF o \in {"", "row"} THEN [status |-> "ok", order |-> "row"]
    ELSE [status |-> "ok", order |-> "col"]

\* linear_checkorder: luaL_checkoption(L, index, "row", LINEAR_ORDERS)
CheckOrder(o) ==
    IF o \in {"", "row"} THEN [status |-> "ok", order |-> "row"]
    ELSE IF o = "col" THEN [status |-> "ok", order |-> "col"]
    ELSE [status |-> "invalid option", order |-> "row"]

\* the checks of linear_matrix, in their order
MatrixStatus(r, c, o) ==
    IF ~DimensionOk(r) \/ ~DimensionOk(c) THEN "bad dimension"
    ELSE CheckOrder(o).status

\* linear_matrix
Matrix(r, c, order) ==
    /\ Idle
    /\ LET rows == ToSize(r)
           cols == ToSize(c)
       IN
       IF MatrixStatus(r, c, order) # "ok"
       THEN /\ last' = Call("matrix", MatrixStatus(r, c, order), NoView)
            /\ UNCHANGED <<views, bufs>>
       ELSE /\ rows <= MaxDim /\ cols <= MaxDim
            /\ CreateMatrix(rows, cols, CheckOrder(order).order)
    /\ UNCHANGED <<iter, uaf>>

\* linear_size: the length of a vector; the rows, the columns and the order
\* of a matrix
SizeResult(x) ==
    IF x.kind = "vector"
    THEN [NoView EXCEPT !.kind = "size", !.length = x.length]
    ELSE [NoView EXCEPT !.kind = "size", !.rows = x.rows, !.cols = x.cols,
                        !.order = x.order]

Size(x) ==
    /\ Idle
    /\ x \in Live
    /\ last' = Call("size", "ok", SizeResult(x))
    /\ UNCHANGED <<views, bufs, iter, uaf>>

\* ----------------------------------------------------------------- collect

\* x->data->refs-- of linear_vector_gc and linear_matrix_gc
RefsDec(refs) == (refs + SizeMod - 1) % SizeMod

\* a finalizer that frees the allocation whatever the count
GcBufsEager(x) ==
    IF x.data = 0 THEN bufs ELSE [bufs EXCEPT ![x.data] = NoBuf]

\* the allocations after the finalizer of x: the count goes down and the
\* allocation is freed at 0
GcBufs(x) ==
    IF x.data = 0
    THEN bufs
    ELSE [bufs EXCEPT ![x.data] =
             IF RefsDec(@.refs) = 0 THEN NoBuf ELSE [@ EXCEPT !.refs = RefsDec(@)]]

\* linear_vector_gc, linear_matrix_gc: the finalizer of a userdata that the
\* program no longer reaches; a running loop keeps its operand
Gc(x) ==
    /\ Idle
    /\ x \in Live
    /\ ~(iter.X = x /\ CopiesIn(x, views) = 1)
    /\ views' = views (-) SetToBag({x})
    /\ bufs' = GcBufs(x)
    /\ uaf' = (uaf \/ (x.data # 0 /\ ~bufs[x.data].live))
    /\ last' = Call("gc", IF bufs'[x.data].live THEN "ok" ELSE "freed", NoView)
    /\ UNCHANGED iter

\* ------------------------------------------------------------------ derive

\* a push that forgets to count the new reference
RefsIncSkipped(refs) == refs

\* data->refs++ of linear_push_vector and linear_push_matrix
RefsInc(refs) == (refs + 1) % SizeMod

\* a push that clears the first element of the new view, as a fresh copy
\* from calloc would
PushCleared(op, view) ==
    /\ HasSlot
    /\ views' = views (+) SetToBag({view})
    /\ bufs' = [bufs EXCEPT ![view.data] =
                    [@ EXCEPT !.refs = RefsInc(@), !.vals[view.values + 1] = 0]]
    /\ last' = Call(op, "ok", view)

\* linear_push_vector, linear_push_matrix: a new userdata on the allocation
\* of its parent
Push(op, view) ==
    /\ HasSlot
    /\ views' = views (+) SetToBag({view})
    /\ bufs' = [bufs EXCEPT ![view.data].refs = RefsInc(@)]
    /\ last' = Call(op, "ok", view)

\* a call that raises msg, or returns without pushing a view
NoPush(op, status) ==
    /\ last' = Call(op, status, NoView)
    /\ UNCHANGED <<views, bufs>>

\* sub that does not compare end with start
SubResultNoOrder(x, a, b) ==
    LET start == ToSize(OptInteger(a, 1))
        end == ToSize(OptInteger(b, x.length))
    IN
    IF ~(start >= 1 /\ start <= x.length) THEN Err("bad index")
    ELSE IF ~(end <= x.length) THEN Err("bad index")
    ELSE Ok(VectorView(end - start + 1, x.inc, x.data, x.values + (start - 1) * x.inc))

\* linear_sub, vector branch: the arguments of linear_push_vector, or the error
SubResult(x, a, b) ==
    LET start == ToSize(OptInteger(a, 1))
        end == ToSize(OptInteger(b, x.length))
    IN
    IF ~(start >= 1 /\ start <= x.length) THEN Err("bad index")
    ELSE IF ~(end >= start /\ end <= x.length) THEN Err("bad index")
    ELSE Ok(VectorView(end - start + 1, x.inc, x.data, x.values + (start - 1) * x.inc))

\* sub on a matrix that starts at the first element of X whatever the range
SubMatrixResultNoOffset(X, a, b, c, d) ==
    LET rowstart == ToSize(OptInteger(a, 1))
        colstart == ToSize(OptInteger(b, 1))
        rowend == ToSize(OptInteger(c, X.rows))
        colend == ToSize(OptInteger(d, X.cols))
    IN
    IF ~(rowstart >= 1 /\ rowstart <= X.rows) THEN Err("bad index")
    ELSE IF ~(colstart >= 1 /\ colstart <= X.cols) THEN Err("bad index")
    ELSE IF ~(rowend >= rowstart /\ rowend <= X.rows) THEN Err("bad index")
    ELSE IF ~(colend >= colstart /\ colend <= X.cols) THEN Err("bad index")
    ELSE Ok(MatrixView(rowend - rowstart + 1, colend - colstart + 1, X.ld, X.order,
                       X.data, X.values))

\* linear_sub, matrix branch: the arguments of linear_push_matrix, or the error
SubMatrixResult(X, a, b, c, d) ==
    LET rowstart == ToSize(OptInteger(a, 1))
        colstart == ToSize(OptInteger(b, 1))
        rowend == ToSize(OptInteger(c, X.rows))
        colend == ToSize(OptInteger(d, X.cols))
    IN
    IF ~(rowstart >= 1 /\ rowstart <= X.rows) THEN Err("bad index")
    ELSE IF ~(colstart >= 1 /\ colstart <= X.cols) THEN Err("bad index")
    ELSE IF ~(rowend >= rowstart /\ rowend <= X.rows) THEN Err("bad index")
    ELSE IF ~(colend >= colstart /\ colend <= X.cols) THEN Err("bad index")
    ELSE IF X.order = "row"
    THEN Ok(MatrixView(rowend - rowstart + 1, colend - colstart + 1, X.ld, X.order,
                       X.data, X.values + (rowstart - 1) * X.ld + (colstart - 1)))
    ELSE Ok(MatrixView(rowend - rowstart + 1, colend - colstart + 1, X.ld, X.order,
                       X.data, X.values + (colstart - 1) * X.ld + (rowstart - 1)))

\* tvector that starts at &X->values[index]
TvectorResultOffByOne(X, i) ==
    LET index == ToSize(i) IN
    IF X.order = "row"
    THEN IF ~(index >= 1 /\ index <= X.cols) THEN Err("bad index")
         ELSE Ok(VectorView(X.rows, X.ld, X.data, X.values + index))
    ELSE IF ~(index >= 1 /\ index <= X.rows) THEN Err("bad index")
         ELSE Ok(VectorView(X.cols, X.ld, X.data, X.values + index))

\* tvector that steps by the minor extent instead of the leading dimension
TvectorResultMinorStride(X, i) ==
    LET index == ToSize(i) IN
    IF X.order = "row"
    THEN IF ~(index >= 1 /\ index <= X.cols) THEN Err("bad index")
         ELSE Ok(VectorView(X.rows, X.cols, X.data, X.values + (index - 1)))
    ELSE IF ~(index >= 1 /\ index <= X.rows) THEN Err("bad index")
         ELSE Ok(VectorView(X.cols, X.rows, X.data, X.values + (index - 1)))

\* linear_tvector
TvectorResult(X, i) ==
    LET index == ToSize(i) IN
    IF X.order = "row"
    THEN IF ~(index >= 1 /\ index <= X.cols) THEN Err("bad index")
         ELSE Ok(VectorView(X.rows, X.ld, X.data, X.values + (index - 1)))
    ELSE IF ~(index >= 1 /\ index <= X.rows) THEN Err("bad index")
         ELSE Ok(VectorView(X.cols, X.ld, X.data, X.values + (index - 1)))

\* linear_matrix_len: #X
MatrixLen(X) == IF X.order = "row" THEN X.rows ELSE X.cols

\* linear_matrix_index: X[i]; nil (no view) when i is no major index
MatrixIndexResult(X, i) ==
    LET index == ToSize(i) IN
    IF X.order = "row"
    THEN IF index >= 1 /\ index <= X.rows
         THEN Ok(VectorView(X.cols, 1, X.data, X.values + (index - 1) * X.ld))
         ELSE Ok(NoView)
    ELSE IF index >= 1 /\ index <= X.cols
         THEN Ok(VectorView(X.rows, 1, X.data, X.values + (index - 1) * X.ld))
         ELSE Ok(NoView)

\* a structural function that pushes the view r.view or raises r.status
Derive(op, r) ==
    IF r.status # "ok" THEN NoPush(op, r.status)
    ELSE IF r.view = NoView THEN NoPush(op, "ok")
    ELSE Push(op, r.view)

Sub(x, a, b) ==
    /\ Idle
    /\ x \in LiveVectors
    /\ Derive("sub", SubResult(x, a, b))
    /\ UNCHANGED <<iter, uaf>>

SubMatrix(X, a, b, c, d) ==
    /\ Idle
    /\ X \in LiveMatrices
    /\ Derive("sub", SubMatrixResult(X, a, b, c, d))
    /\ UNCHANGED <<iter, uaf>>

Tvector(X, i) ==
    /\ Idle
    /\ X \in LiveMatrices
    /\ Derive("tvector", TvectorResult(X, i))
    /\ UNCHANGED <<iter, uaf>>

MatrixIndex(X, i) ==
    /\ Idle
    /\ X \in LiveMatrices
    /\ Derive("index", MatrixIndexResult(X, i))
    /\ UNCHANGED <<iter, uaf>>

\* --------------------------------------------------------------- iteration

\* linear_matrix_ipairs: for i, v in ipairs(X) starts with the state X and the
\* control value 0
MatrixIpairs(X) ==
    /\ Idle
    /\ X \in LiveMatrices
    /\ iter = NoIter
    /\ iter' = [X |-> X, ctl |-> 0, yielded |-> <<>>]
    /\ last' = Call("ipairs", "ok", NoView)
    /\ UNCHANGED <<views, bufs, uaf>>

\* an iteration step that starts at &X->values[(index + 1) * X->ld]
MatrixNextResultSkipFirst(X, ctl) ==
    LET index == ToSize(ctl)
        majorsize == IF X.order = "row" THEN X.rows ELSE X.cols
        minorsize == IF X.order = "row" THEN X.cols ELSE X.rows
    IN
    IF index + 1 < majorsize
    THEN Ok(VectorView(minorsize, 1, X.data, X.values + (index + 1) * X.ld))
    ELSE Ok(NoView)

\* linear_matrix_next with the control value ctl: the vector pushed after
\* ctl + 1, or nil (no view) at the end
MatrixNextResult(X, ctl) ==
    LET index == ToSize(ctl)
        majorsize == IF X.order = "row" THEN X.rows ELSE X.cols
        minorsize == IF X.order = "row" THEN X.cols ELSE X.rows
    IN
    IF index < majorsize
    THEN Ok(VectorView(minorsize, 1, X.data, X.values + index * X.ld))
    ELSE Ok(NoView)

\* one step of the generic for loop: linear_matrix_next(X, ctl); the loop
\* takes ctl + 1 as its control value, or ends on nil
MatrixNext ==
    /\ Idle
    /\ iter.X # NoView
    /\ LET r == MatrixNextResult(iter.X, iter.ctl) IN
       IF r.view = NoView
       THEN /\ NoPush("next", "end")
            /\ iter' = NoIter
       ELSE /\ Push("next", r.view)
            /\ iter' = [iter EXCEPT !.ctl = ToSize(@) + 1,
                                    !.yielded = Append(@, ToSize(iter.ctl) + 1)]
    /\ UNCHANGED uaf

\* ---------------------------------------------------------- read and write

\* the place in the doubles of x.data (counted from 1) of component index
VectorAddr(x, index) == x.values + (index - 1) * x.inc + 1

\* linear_vector_index on the allocations m: x[i]; "nil" when i is no index
VectorIndex(m, x, i) ==
    LET index == ToSize(i) IN
    IF index >= 1 /\ index <= x.length
    THEN m[x.data].vals[VectorAddr(x, index)]
    ELSE "nil"

\* the allocations after x->values[(index - 1) * x->inc] = value
Store(m, x, index, value) ==
    [m EXCEPT ![x.data].vals[VectorAddr(x, index)] = value]

\* the number of elements that are not 0
NonZero ==
    Cardinality({p \in BufIds \X (1..(MaxDim * MaxDim)) :
                    /\ p[2] <= Len(bufs[p[1]].vals)
                    /\ bufs[p[1]].vals[p[2]] # 0})

\* linear_vector_newindex: x[i] = value
Newindex(x, i, value) ==
    /\ Idle
    /\ x \in LiveVectors
    /\ LET index == ToSize(i) IN
       IF ~(index >= 1 /\ index <= x.length)
       THEN /\ last' = Call("newindex", "bad index", NoView)
            /\ bufs' = bufs
       ELSE /\ value = 0 \/ NonZero < MaxNonZero
            /\ bufs' = Store(bufs, x, index, value)
            /\ last' = Call("newindex", "ok", NoView)
    /\ UNCHANGED <<views, iter, uaf>>

\* the place in the doubles of X.data (counted from 1) of the element in row r
\* and column c: the major vectors lie ld apart, as linear_totable walks them
MatrixAddr(X, r, c) ==
    IF X.order = "row"
    THEN X.values + (r - 1) * X.ld + (c - 1) + 1
    ELSE X.values + (c - 1) * X.ld + (r - 1) + 1

\* X[r][c]: linear_matrix_index pushes the major vector, linear_vector_index
\* reads its component
MatrixGet(m, X, r, c) ==
    IF X.order = "row"
    THEN VectorIndex(m, MatrixIndexResult(X, r).view, c)
    ELSE VectorIndex(m, MatrixIndexResult(X, c).view, r)

\* X[r][c] = value: linear_matrix_index pushes the major vector,
\* linear_vector_newindex writes its component
MatrixSet(m, X, r, c, value) ==
    IF X.order = "row"
    THEN Store(m, MatrixIndexResult(X, r).view, c, value)
    ELSE Store(m, MatrixIndexResult(X, c).view, r, value)

\* the doubles that the components of x and the elements of X occupy
VectorCells(x) == {<<x.data, VectorAddr(x, i)>> : i \in 1..x.length}
MatrixCells(X) == {<<X.data, MatrixAddr(X, r, c)>> : r \in 1..X.rows, c \in 1..X.cols}

\* linear_vector_ipairs: for i, v in ipairs(x) starts with the state x and
\* the control value 0
VectorIpairs(x) ==
    /\ Idle
    /\ x \in LiveVectors
    /\ iter = NoIter
    /\ iter' = [X |-> x, ctl |-> 0, yielded |-> <<>>]
    /\ last' = Call("ipairs", "ok", NoView)
    /\ UNCHANGED <<views, bufs, uaf>>

\* an iteration step that reads x->values[index] whatever x->inc is
VectorNextResultUnit(m, x, ctl) ==
    LET index == ToSize(ctl) IN
    IF index < x.length
    THEN [end |-> FALSE, index |-> index + 1, value |-> m[x.data].vals[x.values + index + 1]]
    ELSE [end |-> TRUE, index |-> 0, value |-> 0]

\* linear_vector_next with the control value ctl on the allocations m: the
\* index and the value pushed, or nil at the end
VectorNextResult(m, x, ctl) ==
    LET index == ToSize(ctl) IN
    IF index < x.length
    THEN [end |-> FALSE, index |-> index + 1,
          value |-> m[x.data].vals[x.values + index * x.inc + 1]]
    ELSE [end |-> TRUE, index |-> 0, value |-> 0]

\* one step of the generic for loop: linear_vector_next(x, ctl); the loop
\* takes the index pushed as its control value, or ends on nil
VectorNext ==
    /\ Idle
    /\ iter.X # NoView
    /\ LET r == VectorNextResult(bufs, iter.X, iter.ctl) IN
       IF r.end
       THEN /\ last' = Call("next", "end", NoView)
            /\ iter' = NoIter
       ELSE /\ last' = Call("next", "ok", NoView)
            /\ iter' = [iter EXCEPT !.ctl = r.index,
                                    !.yielded = Append(@, <<r.index, r.value>>)]
    /\ UNCHANGED <<views, bufs, uaf>>

\* ------------------------------------------------------- unwind and reshape

\* the outcome of unwind or reshape: status is "ok" or the message of the
\* error raised, mem the allocations as the call leaves them
Packed(status, m) == [status |-> status, mem |-> m]

\* the place in the doubles of X.data (counted from 1) that the copy loops of
\* linear_unwind and linear_reshape reach as their element t (counted from
\* 0): major vector t \div minorsize starts at &X->values[i * X->ld]
LoopAddr(X, t) ==
    LET minorsize == IF X.order = "row" THEN X.cols ELSE X.rows IN
    X.values + (t \div minorsize) * X.ld + (t % minorsize) + 1

\* the copy loops of linear_reshape for one matrix, from element t on:
\* *d++ = *s; s += x->inc, with s the offset of the next component of x
RECURSIVE ReshapeMatrix(_, _, _, _, _)
ReshapeMatrix(m, x, X, s, t) ==
    IF t = X.rows * X.cols
    THEN m
    ELSE ReshapeMatrix([m EXCEPT ![X.data].vals[LoopAddr(X, t)] =
                                     m[x.data].vals[s + t * x.inc + 1]],
                       x, X, s, t + 1)

\* the while loop of linear_reshape from argument index on, s the offset of
\* the next component of x = args[1]
RECURSIVE ReshapeLoop(_, _, _, _)
ReshapeLoop(m, args, index, s) ==
    LET x == args[1]
        end == x.values + x.length * x.inc
    IN
    IF ~(s < end) THEN Packed("ok", m)
    ELSE IF index > Len(args) \/ args[index].kind # "matrix"
    THEN Packed("linear.matrix expected", m)
    ELSE IF ~(s + args[index].rows * args[index].cols * x.inc <= end)
    THEN Packed("matrix too large", m)
    ELSE ReshapeLoop(ReshapeMatrix(m, x, args[index], s, 0), args, index + 1,
                     s + args[index].rows * args[index].cols * x.inc)

\* linear_reshape(args[1], args[2], ...) on the allocations m
ReshapeResult(m, args) ==
    IF Len(args) = 0 \/ args[1].kind # "vector"
    THEN Packed("linear.vector expected", m)
    ELSE ReshapeLoop(m, args, 2, args[1].values)

\* copy loops of unwind that advance d by one double whatever x->inc is
UnwindMatrixUnitStride(m, x, X, d, t) ==
    [m EXCEPT ![x.data].vals =
        [k \in DOMAIN @ |->
            IF k - d - 1 \in 0..(X.rows * X.cols - 1)
            THEN m[X.data].vals[LoopAddr(X, k - d - 1)]
            ELSE @[k]]]

\* the copy loops of linear_unwind for one matrix, from element t on:
\* *d = *s++; d += x->inc, with d the offset of the next component of x
RECURSIVE UnwindMatrix(_, _, _, _, _)
UnwindMatrix(m, x, X, d, t) ==
    IF t = X.rows * X.cols
    THEN m
    ELSE UnwindMatrix([m EXCEPT ![x.data].vals[d + t * x.inc + 1] =
                                    m[X.data].vals[LoopAddr(X, t)]],
                      x, X, d, t + 1)

\* the while loop of linear_unwind from argument index on, d the offset of
\* the next component of x = args[Len(args)]
RECURSIVE UnwindLoop(_, _, _, _)
UnwindLoop(m, args, index, d) ==
    LET x == args[Len(args)]
        end == x.values + x.length * x.inc
    IN
    IF ~(d < end) THEN Packed("ok", m)
    ELSE IF index > Len(args) \/ args[index].kind # "matrix"
    THEN Packed("linear.matrix expected", m)
    ELSE IF ~(d + args[index].rows * args[index].cols * x.inc <= end)
    THEN Packed("matrix too large", m)
    ELSE UnwindLoop(UnwindMatrix(m, x, args[index], d, 0), args, index + 1,
                    d + args[index].rows * args[index].cols * x.inc)

\* linear_unwind(args[1], ..., args[Len(args)]) on the allocations m
UnwindResult(m, args) ==
    IF Len(args) = 0 THEN Packed("wrong number of arguments", m)
    ELSE IF args[Len(args)].kind # "vector"
    THEN Packed("linear.vector expected", m)
    ELSE UnwindLoop(m, args, 1, args[Len(args)].values)

\* the argument lists of unwind and reshape: up to MaxArgs live userdata
PackArgs == UNION {[1..k -> Live] : k \in 0..MaxArgs}

\* linear_reshape
Reshape(args) ==
    /\ Idle
    /\ args \in PackArgs
    /\ bufs' = ReshapeResult(bufs, args).mem
    /\ last' = Call("reshape", ReshapeResult(bufs, args).status, NoView)
    /\ UNCHANGED <<views, iter, uaf>>

\* linear_unwind
Unwind(args) ==
    /\ Idle
    /\ args \in PackArgs
    /\ bufs' = UnwindResult(bufs, args).mem
    /\ last' = Call("unwind", UnwindResult(bufs, args).status, NoView)
    /\ UNCHANGED <<views, iter, uaf>>

\* ------------------------------------------------------------------- unary

\* the doubles in the allocations are integers; what the functions compute
\* from them is kept exactly, as the fraction <<n, d>> of two integers with
\* d > 0; Rat(v) is the fraction of the double v
Rat(v) == <<v, 1>>
RatAdd(a, b) == <<a[1] * b[2] + b[1] * a[2], a[2] * b[2]>>
RatSub(a, b) == <<a[1] * b[2] - b[1] * a[2], a[2] * b[2]>>
RatMul(a, b) == <<a[1] * b[1], a[2] * b[2]>>
\* a / n for an integer n > 0
RatDiv(a, n) == <<a[1], a[2] * n>>
RatEq(a, b) == a[1] * b[2] = b[1] * a[2]
\* what a function of the unary engine returns: the fraction a, or its
\* square root
Term(root, a) == [root |-> root, of |-> a]
\* stands for every value that is no integer: no double of the model
Inexact == 0 - 1
\* the double stored for a term: its integer value when it has one
Double(t) ==
    IF t.root
    THEN IF RatEq(t.of, <<0, 1>>) THEN 0
         ELSE IF RatEq(t.of, <<1, 1>>) THEN 1
         ELSE Inexact
    ELSE IF t.of[1] % t.of[2] = 0 THEN t.of[1] \div t.of[2]
         ELSE Inexact

\* the functions of the unary engine that the model has
UnaryFunctions == {"sum", "var", "std"}

\* LINEAR_PARAMS_NONE and LINEAR_PARAMS_DDOF: the function takes a ddof
HasDdof(f) == f \in {"var", "std"}

\* linear_checkargs for the parameters of f with the optional argument a:
\* args->d = luaL_optinteger(L, index, 0) as a size_t, checked against size
CheckArgs(f, size, a) ==
    IF HasDdof(f)
    THEN IF ToSize(OptInteger(a, 0)) < size
         THEN [status |-> "ok", d |-> ToSize(OptInteger(a, 0))]
         ELSE [status |-> "bad ddof", d |-> ToSize(OptInteger(a, 0))]
    ELSE [status |-> "ok", d |-> 0]

\* for (i = 0; i < size; i++) sum += x[i], from i on; x is the offset of the
\* first element in the doubles vals
RECURSIVE SumUnit(_, _, _, _)
SumUnit(vals, x, size, i) ==
    IF i = size THEN <<0, 1>>
    ELSE RatAdd(Rat(vals[x + i + 1]), SumUnit(vals, x, size, i + 1))

\* for (i = 0; i < size; i++) { sum += *x; x += incx; }, from i on: the sum
\* and the pointer x after the loop
RECURSIVE SumStrided(_, _, _, _, _)
SumStrided(vals, x, incx, size, i) ==
    IF i = size THEN [sum |-> <<0, 1>>, x |-> x]
    ELSE LET rest == SumStrided(vals, x + incx, incx, size, i + 1) IN
         [sum |-> RatAdd(Rat(vals[x + 1]), rest.sum), x |-> rest.x]

\* sum += (x[i] - mean) * (x[i] - mean), from i on
RECURSIVE SquaresUnit(_, _, _, _, _)
SquaresUnit(vals, x, size, mean, i) ==
    IF i = size THEN <<0, 1>>
    ELSE RatAdd(RatMul(RatSub(Rat(vals[x + i + 1]), mean),
                       RatSub(Rat(vals[x + i + 1]), mean)),
                SquaresUnit(vals, x, size, mean, i + 1))

\* sum += (*x - mean) * (*x - mean); x += incx, from i on
RECURSIVE SquaresStrided(_, _, _, _, _, _)
SquaresStrided(vals, x, incx, size, mean, i) ==
    IF i = size THEN <<0, 1>>
    ELSE RatAdd(RatMul(RatSub(Rat(vals[x + 1]), mean), RatSub(Rat(vals[x + 1]), mean)),
                SquaresStrided(vals, x + incx, incx, size, mean, i + 1))

\* linear_sum_handler
SumHandler(vals, size, x, incx) ==
    IF incx = 1 THEN SumUnit(vals, x, size, 0)
    ELSE SumStrided(vals, x, incx, size, 0).sum

\* a strided path of var whose second loop advances x by one double
VarHandlerUnitSquares(vals, size, x, incx, d) ==
    IF incx = 1
    THEN RatDiv(SquaresUnit(vals, x, size, RatDiv(SumUnit(vals, x, size, 0), size), 0),
                ToSize(size - d))
    ELSE LET first == SumStrided(vals, x, incx, size, 0) IN
         RatDiv(SquaresStrided(vals, first.x - size * incx, 1, size,
                               RatDiv(first.sum, size), 0),
                ToSize(size - d))

\* linear_var_handler: the unit-stride path, and the strided path that walks
\* x, rewinds it by size * incx and walks it again; the divisor size - d is a
\* size_t
VarHandler(vals, size, x, incx, d) ==
    IF incx = 1
    THEN RatDiv(SquaresUnit(vals, x, size, RatDiv(SumUnit(vals, x, size, 0), size), 0),
                ToSize(size - d))
    ELSE LET first == SumStrided(vals, x, incx, size, 0) IN
         RatDiv(SquaresStrided(vals, first.x - size * incx, incx, size,
                               RatDiv(first.sum, size), 0),
                ToSize(size - d))

\* linear_std_handler: sqrt(linear_var_handler(size, x, incx, args))
StdHandler(vals, size, x, incx, d) == Term(TRUE, VarHandler(vals, size, x, incx, d))

\* f(size, x, incx, args) for the function f of the unary engine
UnaryHandler(f, vals, size, x, incx, d) ==
    IF f = "sum" THEN Term(FALSE, SumHandler(vals, size, x, incx))
    ELSE IF f = "var" THEN Term(FALSE, VarHandler(vals, size, x, incx, d))
    ELSE StdHandler(vals, size, x, incx, d)

\* linear_unary, vector form: the error raised, or the number pushed
UnaryStatus(f, x, a) == CheckArgs(f, x.length, a).status
UnaryValue(m, f, x, a) ==
    UnaryHandler(f, m[x.data].vals, x.length, x.values, x.inc, CheckArgs(f, x.length, a).d)

\* linear_unary, vector form
Unary(f, x, a) ==
    /\ Idle
    /\ x \in LiveVectors
    /\ last' = Call(f, UnaryStatus(f, x, a), NoView)
    /\ UNCHANGED <<views, bufs, iter, uaf>>

\* a matrix form that checks the ddof against the number of reductions
UnaryMatrixStatusMajor(f, X, y, order, a) ==
    IF order = "row"
    THEN IF y.length # X.rows THEN "dimension mismatch"
         ELSE CheckArgs(f, X.rows, a).status
    ELSE IF y.length # X.cols THEN "dimension mismatch"
         ELSE CheckArgs(f, X.cols, a).status

\* linear_unary, matrix form: the error raised, or "ok"; order is the order
\* requested by the third argument, a the optional argument after it
UnaryMatrixStatus(f, X, y, order, a) ==
    IF order = "row"
    THEN IF y.length # X.rows THEN "dimension mismatch"
         ELSE CheckArgs(f, X.cols, a).status
    ELSE IF y.length # X.cols THEN "dimension mismatch"
         ELSE CheckArgs(f, X.rows, a).status

\* loops of the matrix form that store at y->values[i] whatever y->inc is
UnaryMatrixLoopUnitOutput(m, f, X, y, order, d, i) ==
    LET count == IF order = "row" THEN X.rows ELSE X.cols
        size == IF order = "row" THEN X.cols ELSE X.rows
        value(k) == IF X.order = order
                    THEN UnaryHandler(f, m[X.data].vals, size, X.values + k * X.ld, 1, d)
                    ELSE UnaryHandler(f, m[X.data].vals, size, X.values + k, X.ld, d)
    IN
    [m EXCEPT ![y.data].vals =
        [k \in DOMAIN @ |->
            IF k - y.values - 1 \in 0..(count - 1)
            THEN Double(value(k - y.values - 1))
            ELSE @[k]]]

\* the loops of the matrix form from i on: y->values[i * y->inc] takes f over
\* logical row i (order "row") or column i (order "col") of X, walked with
\* stride 1 when X is stored in the requested order and with stride ld when
\* it is not
RECURSIVE UnaryMatrixLoop(_, _, _, _, _, _, _)
UnaryMatrixLoop(m, f, X, y, order, d, i) ==
    LET count == IF order = "row" THEN X.rows ELSE X.cols
        size == IF order = "row" THEN X.cols ELSE X.rows
        value == IF X.order = order
                 THEN UnaryHandler(f, m[X.data].vals, size, X.values + i * X.ld, 1, d)
                 ELSE UnaryHandler(f, m[X.data].vals, size, X.values + i, X.ld, d)
    IN
    IF i = count THEN m
    ELSE UnaryMatrixLoop([m EXCEPT ![y.data].vals[y.values + i * y.inc + 1] = Double(value)],
                         f, X, y, order, d, i + 1)

\* linear_unary, matrix form: the allocations as the call leaves them
UnaryMatrixMem(m, f, X, y, order, a) ==
    IF UnaryMatrixStatus(f, X, y, order, a) # "ok" THEN m
    ELSE UnaryMatrixLoop(m, f, X, y, order,
                         CheckArgs(f, IF order = "row" THEN X.cols ELSE X.rows, a).d, 0)

\* every double of the allocations m is one of the values of the model
Representable(m) ==
    \A b \in BufIds : \A k \in DOMAIN m[b].vals : m[b].vals[k] \in Values

\* linear_unary, matrix form
UnaryMatrix(f, X, y, order, a) ==
    /\ Idle
    /\ X \in LiveMatrices
    /\ y \in LiveVectors
    /\ Representable(UnaryMatrixMem(bufs, f, X, y, order, a))
    /\ bufs' = UnaryMatrixMem(bufs, f, X, y, order, a)
    /\ last' = Call(f, UnaryMatrixStatus(f, X, y, order, a), NoView)
    /\ UNCHANGED <<views, iter, uaf>>

\* ------------------------------------------------------------------ binary

\* axpy (y <- alpha x + y), swap and copy (y <- x) of linear_open_binary
BinaryFunctions == {"axpy", "swap", "copy"}

\* the optional argument of a binary function: absent, a number, or a value
\* that is not a number
NoArg == [kind |-> "none", n |-> 0]
Num(n) == [kind |-> "number", n |-> n]
NotNumber == [kind |-> "other", n |-> 0]
MaxAlpha == 1
BinaryArgs == {NoArg, NotNumber} \cup {Num(n) : n \in (0 - MaxAlpha)..MaxAlpha}

\* the order in which a BLAS kernel goes through the elements; it shows only
\* when the operands overlap
Directions == {"up", "down"}

\* the functions declared with one parameter 'n' of default 1.0
HasAlpha(f) == f \in {"axpy", "inc", "set", "scal"}

\* linear_checkargs for the parameters alpha and for no parameters:
\* luaL_optnumber(L, index, 1.0) raises for a value that is not a number
CheckArgsAlpha(f, a) ==
    IF HasAlpha(f)
    THEN CASE a.kind = "none" -> [status |-> "ok", n |-> 1]
           [] a.kind = "number" -> [status |-> "ok", n |-> a.n]
           [] OTHER -> [status |-> "number expected", n |-> 0]
    ELSE [status |-> "ok", n |-> 0]

\* the handlers on size elements, x from offset x of the doubles of bx with
\* stride incx, y from offset y of the doubles of by with stride incy, from
\* the i-th element processed on
RECURSIVE BinaryHandler(_, _, _, _, _, _, _, _, _, _, _, _)
BinaryHandler(m, f, alpha, size, bx, x, incx, by, y, incy, dir, i) ==
    IF i >= size THEN m
    ELSE LET k == IF dir = "up" THEN i ELSE size - 1 - i
             ax == x + k * incx + 1
             ay == y + k * incy + 1
             xv == m[bx].vals[ax]
             yv == m[by].vals[ay]
             stored == CASE f = "axpy" -> [m EXCEPT ![by].vals[ay] = alpha * xv + yv]
                         [] f = "copy" -> [m EXCEPT ![by].vals[ay] = xv]
                         [] OTHER -> [[m EXCEPT ![by].vals[ay] = xv]
                                         EXCEPT ![bx].vals[ax] = yv]
         IN BinaryHandler(stored, f, alpha, size, bx, x, incx, by, y, incy, dir, i + 1)

\* linear_binary, vector-vector
BinaryVectorStatus(f, x, y, a) ==
    IF y.length # x.length THEN "dimension mismatch"
    ELSE CheckArgsAlpha(f, a).status

\* a vector-vector call that runs the handler on the elements that both
\* vectors have before it compares the lengths
BinaryVectorMemEager(m, f, x, y, a, dir) ==
    IF CheckArgsAlpha(f, a).status # "ok" THEN m
    ELSE BinaryHandler(m, f, CheckArgsAlpha(f, a).n,
                       IF x.length < y.length THEN x.length ELSE y.length,
                       x.data, x.values, x.inc, y.data, y.values, y.inc, dir, 0)

BinaryVectorMem(m, f, x, y, a, dir) ==
    IF BinaryVectorStatus(f, x, y, a) # "ok" THEN m
    ELSE BinaryHandler(m, f, CheckArgsAlpha(f, a).n, x.length, x.data, x.values, x.inc,
                       y.data, y.values, y.inc, dir, 0)

\* a vector-matrix check of x against the extent that the storage order of Y
\* pairs with the order asked for
BinaryVectorMatrixStatusPhysical(f, x, Y, order, a) ==
    IF CheckArgsAlpha(f, a).status # "ok" THEN CheckArgsAlpha(f, a).status
    ELSE IF Y.order = order
         THEN IF x.length = Y.cols THEN "ok" ELSE "dimension mismatch"
         ELSE IF x.length = Y.rows THEN "ok" ELSE "dimension mismatch"

\* linear_binary, vector-matrix: the parameters are checked first, then the
\* length of x against the extent of Y that the order asks for
BinaryVectorMatrixStatus(f, x, Y, order, a) ==
    IF CheckArgsAlpha(f, a).status # "ok" THEN CheckArgsAlpha(f, a).status
    ELSE IF order = "row"
         THEN IF x.length = Y.cols THEN "ok" ELSE "dimension mismatch"
         ELSE IF x.length = Y.rows THEN "ok" ELSE "dimension mismatch"

\* the first double and the stride of the i-th vector (from 0) of Y in the
\* order asked for
MajorBase(Y, order, i) == IF Y.order = order THEN Y.values + i * Y.ld ELSE Y.values + i
MajorIncUnit(Y, order) == 1
MajorInc(Y, order) == IF Y.order = order THEN 1 ELSE Y.ld

\* the calls f(x->length, x->values, x->inc, y, incy, args) of the
\* vector-matrix loops, in order
BinaryVectorMatrixCalls(x, Y, order) ==
    [i \in 1..(IF order = "row" THEN Y.rows ELSE Y.cols) |->
        [size |-> x.length, x |-> x.values, incx |-> x.inc,
         y |-> MajorBase(Y, order, i - 1), incy |-> MajorInc(Y, order)]]

RECURSIVE BinaryVectorMatrixLoop(_, _, _, _, _, _, _, _)
BinaryVectorMatrixLoop(m, f, alpha, x, Y, order, dir, i) ==
    IF i >= (IF order = "row" THEN Y.rows ELSE Y.cols) THEN m
    ELSE BinaryVectorMatrixLoop(
             BinaryHandler(m, f, alpha, x.length, x.data, x.values, x.inc,
                           Y.data, MajorBase(Y, order, i), MajorInc(Y, order), dir, 0),
             f, alpha, x, Y, order, dir, i + 1)

BinaryVectorMatrixMem(m, f, x, Y, order, a, dir) ==
    IF BinaryVectorMatrixStatus(f, x, Y, order, a) # "ok" THEN m
    ELSE BinaryVectorMatrixLoop(m, f, CheckArgsAlpha(f, a).n, x, Y, order, dir, 0)

\* the doubles of x and of Y that the vector-matrix loops hand to the handler
BinaryTouched(x, Y, order) ==
    {<<x.data, x.values + k * x.inc + 1>> : k \in 0..(x.length - 1)}
        \cup {<<Y.data, MajorBase(Y, order, i) + k * MajorInc(Y, order) + 1>> :
                 i \in 0..((IF order = "row" THEN Y.rows ELSE Y.cols) - 1),
                 k \in 0..(x.length - 1)}

\* linear_binary, matrix-matrix
BinaryMatrixStatus(f, X, Y, a) ==
    IF X.order # Y.order THEN "order mismatch"
    ELSE IF ~(X.rows = Y.rows /\ X.cols = Y.cols) THEN "dimension mismatch"
    ELSE CheckArgsAlpha(f, a).status

\* the extent of a major-order vector of X and the number of such vectors
Minor(X) == IF X.order = "row" THEN X.cols ELSE X.rows
Major(X) == IF X.order = "row" THEN X.rows ELSE X.cols

RECURSIVE BinaryMatrixLoop(_, _, _, _, _, _, _)
BinaryMatrixLoop(m, f, alpha, X, Y, dir, i) ==
    IF i >= Major(X) THEN m
    ELSE BinaryMatrixLoop(
             BinaryHandler(m, f, alpha, Minor(X), X.data, X.values + i * X.ld, 1,
                           Y.data, Y.values + i * Y.ld, 1, dir, 0),
             f, alpha, X, Y, dir, i + 1)

\* one call of the handler on packed operands, one call per major-order
\* vector otherwise
BinaryMatrixMem(m, f, X, Y, a, dir) ==
    IF BinaryMatrixStatus(f, X, Y, a) # "ok" THEN m
    ELSE IF X.ld = Minor(X) /\ Y.ld = Minor(Y) /\ X.rows * X.cols <= IntMax
         THEN BinaryHandler(m, f, CheckArgsAlpha(f, a).n, X.rows * X.cols,
                            X.data, X.values, 1, Y.data, Y.values, 1, dir, 0)
         ELSE BinaryMatrixLoop(m, f, CheckArgsAlpha(f, a).n, X, Y, dir, 0)

\* the contents that the model follows after a binary call: every double a
\* value of Values, at most MaxFilled of them other than 0
MaxFilled == 2
Followed(m) ==
    /\ Representable(m)
    /\ Cardinality({p \in BufIds \X (1..MaxDoubles) :
                       p[2] <= Len(m[p[1]].vals) /\ m[p[1]].vals[p[2]] # 0}) <= MaxFilled

BinaryVector(f, x, y, a, dir) ==
    /\ Idle
    /\ x \in LiveVectors /\ y \in LiveVectors
    /\ Followed(BinaryVectorMem(bufs, f, x, y, a, dir))
    /\ bufs' = BinaryVectorMem(bufs, f, x, y, a, dir)
    /\ last' = Call(f, BinaryVectorStatus(f, x, y, a), NoView)
    /\ UNCHANGED <<views, iter, uaf>>

BinaryVectorMatrix(f, x, Y, order, a, dir) ==
    /\ Idle
    /\ x \in LiveVectors /\ Y \in LiveMatrices
    /\ Followed(BinaryVectorMatrixMem(bufs, f, x, Y, order, a, dir))
    /\ bufs' = BinaryVectorMatrixMem(bufs, f, x, Y, order, a, dir)
    /\ last' = Call(f, BinaryVectorMatrixStatus(f, x, Y, order, a), NoView)
    /\ UNCHANGED <<views, iter, uaf>>

BinaryMatrix(f, X, Y, a, dir) ==
    /\ Idle
    /\ X \in LiveMatrices /\ Y \in LiveMatrices
    /\ Followed(BinaryMatrixMem(bufs, f, X, Y, a, dir))
    /\ bufs' = BinaryMatrixMem(bufs, f, X, Y, a, dir)
    /\ last' = Call(f, BinaryMatrixStatus(f, X, Y, a), NoView)
    /\ UNCHANGED <<views, iter, uaf>>

\* -------------------------------------------------------------- elementary

\* inc (x <- x + alpha), set (x <- alpha) and apply (x <- callback(x)) of
\* linear_open_elementary
ElementaryFunctions == {"inc", "set", "apply"}

\* the second argument of apply: a value that is not a function, or a
\* function that returns 1 - v for v and raises an error in its fails-th
\* call (never for 0)
MaxCalls == 2
NotFunction == [kind |-> "other", fails |-> 0]
Function(k) == [kind |-> "function", fails |-> k]
Callbacks == {NotFunction} \cup {Function(k) : k \in 0..MaxCalls}
CallbackValue(v) == 1 - v

\* a run of the handlers: the contents, "ok" or the error that lua_call has
\* raised, and the number of calls of the callback so far
Run(m) == [mem |-> m, status |-> "ok", calls |-> 0]

\* handlers that take the elements for adjacent whatever the stride
RECURSIVE ElementaryHandlerUnit(_, _, _, _, _, _, _, _, _)
ElementaryHandlerUnit(s, f, alpha, cb, size, b, x, incx, i) ==
    IF i >= size \/ s.status # "ok" THEN s
    ELSE LET addr == x + i + 1
             v == s.mem[b].vals[addr]
         IN
         IF f = "apply"
         THEN IF cb.fails = s.calls + 1
              THEN [s EXCEPT !.status = "callback error", !.calls = @ + 1]
              ELSE ElementaryHandlerUnit(
                       [s EXCEPT !.mem[b].vals[addr] = CallbackValue(v), !.calls = @ + 1],
                       f, alpha, cb, size, b, x, incx, i + 1)
         ELSE ElementaryHandlerUnit(
                  [s EXCEPT !.mem[b].vals[addr] =
                               CASE f = "inc" -> v + alpha
                                 [] f = "scal" -> alpha * v
                                 [] OTHER -> alpha],
                  f, alpha, cb, size, b, x, incx, i + 1)

\* the handlers on size elements from offset x of the doubles of b with
\* stride incx, from element i on (scal is cblas_dscal(size, alpha, x, incx));
\* an error of the callback ends the run where it stands
RECURSIVE ElementaryHandler(_, _, _, _, _, _, _, _, _)
ElementaryHandler(s, f, alpha, cb, size, b, x, incx, i) ==
    IF i >= size \/ s.status # "ok" THEN s
    ELSE LET addr == x + i * incx + 1
             v == s.mem[b].vals[addr]
         IN
         IF f = "apply"
         THEN IF cb.fails = s.calls + 1
              THEN [s EXCEPT !.status = "callback error", !.calls = @ + 1]
              ELSE ElementaryHandler(
                       [s EXCEPT !.mem[b].vals[addr] = CallbackValue(v), !.calls = @ + 1],
                       f, alpha, cb, size, b, x, incx, i + 1)
         ELSE ElementaryHandler(
                  [s EXCEPT !.mem[b].vals[addr] =
                               CASE f = "inc" -> v + alpha
                                 [] f = "scal" -> alpha * v
                                 [] OTHER -> alpha],
                  f, alpha, cb, size, b, x, incx, i + 1)

\* luaL_checktype(L, 2, LUA_TFUNCTION) of linear_apply, then linear_checkargs
ElementaryStatus(f, a, cb) ==
    IF f = "apply"
    THEN IF cb.kind = "function" THEN "ok" ELSE "function expected"
    ELSE CheckArgsAlpha(f, a).status

\* a loop that goes from one major-order vector to the next by the minor
\* extent
RECURSIVE ElementaryLoopDense(_, _, _, _, _, _)
ElementaryLoopDense(s, f, alpha, cb, X, i) ==
    IF i >= Major(X) THEN s
    ELSE ElementaryLoopDense(
             ElementaryHandler(s, f, alpha, cb, Minor(X), X.data,
                               X.values + i * Minor(X), 1, 0),
             f, alpha, cb, X, i + 1)

\* for (i = 0; i < major; i++) f(minor, &X->values[i * X->ld], 1, args)
RECURSIVE ElementaryLoop(_, _, _, _, _, _)
ElementaryLoop(s, f, alpha, cb, X, i) ==
    IF i >= Major(X) THEN s
    ELSE ElementaryLoop(
             ElementaryHandler(s, f, alpha, cb, Minor(X), X.data, X.values + i * X.ld, 1, 0),
             f, alpha, cb, X, i + 1)

\* a matrix form that takes every matrix for packed
ElementaryMatrixPacked(m, f, X, a, cb) ==
    ElementaryHandler(Run(m), f, CheckArgsAlpha(f, a).n, cb, X.rows * X.cols,
                      X.data, X.values, 1, 0)

\* linear_elementary on a matrix: one call on a packed matrix, one call per
\* major-order vector otherwise
ElementaryMatrix(m, f, X, a, cb) ==
    IF Minor(X) = X.ld /\ X.rows * X.cols <= IntMax
    THEN ElementaryHandler(Run(m), f, CheckArgsAlpha(f, a).n, cb, X.rows * X.cols,
                           X.data, X.values, 1, 0)
    ELSE ElementaryLoop(Run(m), f, CheckArgsAlpha(f, a).n, cb, X, 0)

\* the calls f(size, x, 1, args) of linear_elementary on a matrix, in order:
\* the size and the offset of x in the doubles of the buffer
ElementaryCalls(X) ==
    IF Minor(X) = X.ld /\ X.rows * X.cols <= IntMax
    THEN <<[size |-> X.rows * X.cols, x |-> X.values]>>
    ELSE [i \in 1..Major(X) |-> [size |-> Minor(X), x |-> X.values + (i - 1) * X.ld]]

\* linear_elementary on a vector or a matrix v: the status and the contents
\* at the end of the call
ElementaryResult(m, f, v, a, cb) ==
    IF ElementaryStatus(f, a, cb) # "ok"
    THEN [mem |-> m, status |-> ElementaryStatus(f, a, cb), calls |-> 0]
    ELSE IF v.kind = "vector"
         THEN ElementaryHandler(Run(m), f, CheckArgsAlpha(f, a).n, cb, v.length,
                                v.data, v.values, v.inc, 0)
         ELSE ElementaryMatrix(m, f, v, a, cb)

Elementary(f, v, a, cb) ==
    /\ Idle
    /\ v \in Live
    /\ Followed(ElementaryResult(bufs, f, v, a, cb).mem)
    /\ bufs' = ElementaryResult(bufs, f, v, a, cb).mem
    /\ last' = Call(f, ElementaryResult(bufs, f, v, a, cb).status, NoView)
    /\ UNCHANGED <<views, iter, uaf>>

\* the contents with doubles from -MaxVal to MaxVal
Signed(m) ==
    \A b \in BufIds : \A k \in DOMAIN m[b].vals :
        m[b].vals[k] \in (0 - MaxVal)..MaxVal

\* scal(v, alpha) of linear_open_elementary: x <- alpha x
Scal(v, a) ==
    /\ Idle
    /\ v \in Live
    /\ Signed(ElementaryResult(bufs, "scal", v, a, NotFunction).mem)
    /\ bufs' = ElementaryResult(bufs, "scal", v, a, NotFunction).mem
    /\ last' = Call("scal", ElementaryResult(bufs, "scal", v, a, NotFunction).status, NoView)
    /\ UNCHANGED <<views, iter, uaf>>

\* ----------------------------------------------------------------- program

Transposes == {"notrans", "trans"}

\* the statuses that LAPACKE_dgesv, LAPACKE_dgetrf and LAPACKE_dgetri
\* return: negative for an illegal argument, 0, positive for a singular
\* matrix
MaxStatus == 1
LapackStatuses == (0 - MaxStatus)..MaxStatus

\* the doubles of the live allocations
AllCells == {p \in BufIds \X (1..MaxDoubles) : p[2] <= Len(bufs[p[1]].vals)}

\* the contents that differ from bufs at most in the doubles cells
RECURSIVE Overwritten(_, _)
Overwritten(m, cells) ==
    IF cells = {} THEN {m}
    ELSE LET p == CHOOSE q \in cells : TRUE IN
         {[w EXCEPT ![p[1]].vals[p[2]] = v] : w \in Overwritten(m, cells \ {p}), v \in Values}

\* what an external subprogram that writes the doubles cells can leave: any
\* value in each of them, and any contents at all once it writes outside the
\* allocation
External(cells) ==
    {m \in Overwritten(bufs, IF cells \subseteq AllCells THEN cells ELSE AllCells) :
        Followed(m)}

\* linear_gemm: the dimensions m, n, ka, kb and the checks before cblas_dgemm
GemmDims(A, B, ta, tb) ==
    [m |-> IF ta = "notrans" THEN A.rows ELSE A.cols,
     n |-> IF tb = "notrans" THEN B.cols ELSE B.rows,
     ka |-> IF ta = "notrans" THEN A.cols ELSE A.rows,
     kb |-> IF tb = "notrans" THEN B.rows ELSE B.cols]

GemmStatus(A, B, C, ta, tb) ==
    IF B.order # A.order THEN "order mismatch"
    ELSE IF C.order # A.order THEN "order mismatch"
    ELSE IF GemmDims(A, B, ta, tb).ka # GemmDims(A, B, ta, tb).kb THEN "dimension mismatch"
    ELSE "ok"

\* the doubles that cblas_dgemm(order, ta, tb, m, n, k, ..., C->values, C->ld)
\* writes: an m x n matrix of the order of C with the leading dimension C.ld
GemmCells(C, m, n) ==
    {<<C.data, C.values + i * C.ld + j + 1>> :
        i \in 0..((IF C.order = "row" THEN m ELSE n) - 1),
        j \in 0..((IF C.order = "row" THEN n ELSE m) - 1)}

Gemm(A, B, C, ta, tb) ==
    /\ Idle
    /\ A \in LiveMatrices /\ B \in LiveMatrices /\ C \in LiveMatrices
    /\ last' = Call("gemm", GemmStatus(A, B, C, ta, tb), NoView)
    /\ IF GemmStatus(A, B, C, ta, tb) = "ok"
       THEN bufs' \in External(GemmCells(C, GemmDims(A, B, ta, tb).m,
                                         GemmDims(A, B, ta, tb).n))
       ELSE bufs' = bufs
    /\ UNCHANGED <<views, iter, uaf>>

\* linear_gesv: the checks and malloc before LAPACKE_dgesv
GesvStatus(A, B, alloc) ==
    IF A.rows # A.cols THEN "not square"
    ELSE IF B.order # A.order THEN "order mismatch"
    ELSE IF B.rows # A.rows THEN "dimension mismatch"
    ELSE IF ~alloc THEN "cannot allocate indexes"
    ELSE "ok"

\* what linear_gesv does with the status of LAPACKE_dgesv
GesvOutcome(result) ==
    IF result < 0 THEN "internal error"
    ELSE IF result = 0 THEN "true" ELSE "false"

Gesv(A, B, alloc, result) ==
    /\ Idle
    /\ A \in LiveMatrices /\ B \in LiveMatrices
    /\ IF GesvStatus(A, B, alloc) = "ok"
       THEN /\ last' = Call("gesv", GesvOutcome(result), NoView)
            /\ bufs' \in External(MatrixCells(A) \cup MatrixCells(B))
       ELSE /\ last' = Call("gesv", GesvStatus(A, B, alloc), NoView)
            /\ bufs' = bufs
    /\ UNCHANGED <<views, iter, uaf>>

\* linear_inv and linear_det: the checks and malloc before LAPACKE_dgetrf
SquareStatus(A, alloc) ==
    IF A.rows # A.cols THEN "not square"
    ELSE IF ~alloc THEN "cannot allocate indexes"
    ELSE "ok"

\* an inv that goes on to LAPACKE_dgetri for a singular matrix
InvOutcomeNoStop(lu, tri) ==
    IF lu < 0 THEN [status |-> "internal error", second |-> FALSE]
    ELSE [status |-> IF tri < 0 THEN "internal error"
                     ELSE IF tri = 0 /\ lu = 0 THEN "true" ELSE "false",
          second |-> TRUE]

\* what linear_inv does with the status lu of LAPACKE_dgetrf and the status
\* tri of LAPACKE_dgetri; second tells whether LAPACKE_dgetri was called
InvOutcome(lu, tri) ==
    IF lu # 0
    THEN [status |-> IF lu < 0 THEN "internal error" ELSE "false", second |-> FALSE]
    ELSE [status |-> IF tri < 0 THEN "internal error"
                     ELSE IF tri = 0 THEN "true" ELSE "false",
          second |-> TRUE]

Inv(A, alloc, lu, tri) ==
    /\ Idle
    /\ A \in LiveMatrices
    /\ IF SquareStatus(A, alloc) = "ok"
       THEN /\ last' = Call("inv", InvOutcome(lu, tri).status, NoView)
            /\ bufs' \in External(MatrixCells(A))
       ELSE /\ last' = Call("inv", SquareStatus(A, alloc), NoView)
            /\ bufs' = bufs
    /\ UNCHANGED <<views, iter, uaf>>

\* what linear_det does with the status lu of LAPACKE_dgetrf on the copy;
\* second tells whether the product of the pivots was taken
DetOutcome(lu) ==
    IF lu # 0
    THEN [status |-> IF lu < 0 THEN "internal error" ELSE "zero", second |-> FALSE]
    ELSE [status |-> "determinant", second |-> TRUE]

\* linear_det works on a copy: both malloc calls can fail
Det(A, copy, alloc, lu) ==
    /\ Idle
    /\ A \in LiveMatrices
    /\ last' = Call("det",
                    IF A.rows # A.cols THEN "not square"
                    ELSE IF ~copy THEN "cannot allocate values"
                    ELSE IF ~alloc THEN "cannot allocate indexes"
                    ELSE DetOutcome(lu).status,
                    NoView)
    /\ UNCHANGED <<views, bufs, iter, uaf>>

\* ---------------------------------------------------------------- parallel

\* LUALINEAR_OMP_MINSIZE, scaled down: the loops of at least this many
\* iterations run as #pragma omp parallel for
OmpMinSize == 2

\* the loops with the pragma on two vectors: inc (x[i] += alpha, y is x) and
\* mul with alpha 1 (y[i] *= x[i])
OmpFunctions == {"inc", "mul"}

\* iteration i of the loop: the doubles it reads and the value it stores
OmpRead(m, x, y, i) ==
    [i |-> i, xv |-> m[x.data].vals[x.values + i * x.inc + 1],
     yv |-> m[y.data].vals[y.values + i * y.inc + 1]]
OmpWrite(m, f, alpha, x, y, r) ==
    IF f = "inc"
    THEN [m EXCEPT ![x.data].vals[x.values + r.i * x.inc + 1] = r.xv + alpha]
    ELSE [m EXCEPT ![y.data].vals[y.values + r.i * y.inc + 1] = r.yv * r.xv]

\* for (i = 0; i < size; i++) in order, from iteration i on
RECURSIVE OmpSequential(_, _, _, _, _, _)
OmpSequential(m, f, alpha, x, y, i) ==
    IF i >= x.length THEN m
    ELSE OmpSequential(OmpWrite(m, f, alpha, x, y, OmpRead(m, x, y, i)),
                       f, alpha, x, y, i + 1)

\* the contents that the threads can leave: the iterations todo have not
\* started, the iterations in reads have read their operands and not yet
\* stored; any of them takes the next step
RECURSIVE OmpParallel(_, _, _, _, _, _, _)
OmpParallel(m, f, alpha, x, y, todo, reads) ==
    IF todo = {} /\ reads = {} THEN {m}
    ELSE UNION {OmpParallel(m, f, alpha, x, y, todo \ {i},
                            reads \cup {OmpRead(m, x, y, i)}) : i \in todo}
         \cup UNION {OmpParallel(OmpWrite(m, f, alpha, x, y, r), f, alpha, x, y,
                                 todo, reads \ {r}) : r \in reads}

\* luaL_argcheck(L, y->size == x->size, 2, "dimension mismatch") of xy
OmpStatus(x, y) == IF y.length = x.length THEN "ok" ELSE "dimension mismatch"

\* the contents after s(x->size, x->values, x->inc, y->values, y->inc, alpha)
OmpOutcomes(m, f, alpha, x, y) ==
    IF OmpStatus(x, y) # "ok" THEN {m}
    ELSE IF x.length >= OmpMinSize
         THEN OmpParallel(m, f, alpha, x, y, 0..(x.length - 1), {})
         ELSE {OmpSequential(m, f, alpha, x, y, 0)}

\* inc(x, alpha) and mul(x, y) of the revision with OpenMP
Omp(f, alpha, x, y) ==
    /\ Idle
    /\ x \in LiveVectors /\ y \in LiveVectors
    /\ f = "inc" => y = x
    /\ bufs' \in {m \in OmpOutcomes(bufs, f, alpha, x, y) : Followed(m)}
    /\ last' = Call(f, OmpStatus(x, y), NoView)
    /\ UNCHANGED <<views, iter, uaf>>

\* ---------------------------------------------------------------- parameters

\* LINEAR_PARAMS_MAX: the length of the array args of the engines
LINEAR_PARAMS_MAX == 5

\* a descriptor {name, type, default} of a list; the terminator {NULL} is the
\* end of the sequence
Param(name, type, def) == [name |-> name, type |-> type, def |-> def]

\* LINEAR_PARAMS_NONE, _ALPHA, _ALPHA_BETA and _DDOF, and a list with the type
\* 'r' of linear_param_t, which linear_checkargs has no case for
LINEAR_PARAMS_NONE == <<>>
LINEAR_PARAMS_ALPHA == <<Param("alpha", "n", 1)>>
LINEAR_PARAMS_ALPHA_BETA == <<Param("alpha", "n", 1), Param("beta", "n", 0)>>
LINEAR_PARAMS_DDOF == <<Param("ddof", "d", 0)>>
LINEAR_PARAMS_RANDOM == <<Param("alpha", "n", 1), Param("random", "r", 0)>>
ParamLists ==
    {LINEAR_PARAMS_NONE, LINEAR_PARAMS_ALPHA, LINEAR_PARAMS_ALPHA_BETA,
     LINEAR_PARAMS_DDOF, LINEAR_PARAMS_RANDOM}

\* union linear_arg args[LINEAR_PARAMS_MAX] before the call: nothing stored
NoEntry == [set |-> FALSE, n |-> 0]
Entry(n) == [set |-> TRUE, n |-> n]
NoArgs == [k \in 1..LINEAR_PARAMS_MAX |-> NoEntry]

\* the value at position index of the Lua stack: none above the top
StackArg(stack, index) == IF index \in 1..Len(stack) THEN stack[index] ELSE NoArg

\* a resolver that reads every parameter at the first position
RECURSIVE CheckArgsLoopFixed(_, _, _, _, _, _)
CheckArgsLoopFixed(params, size, stack, index, args, k) ==
    IF k > Len(params) THEN [status |-> "ok", args |-> args, written |-> k - 1]
    ELSE LET a == StackArg(stack, index)
             n == IF a.kind = "none" THEN params[k].def ELSE a.n
         IN  CASE params[k].type = "n" ->
                    IF a.kind = "other"
                    THEN [status |-> "number expected", args |-> args, written |-> k - 1]
                    ELSE CheckArgsLoopFixed(params, size, stack, index,
                                            [args EXCEPT ![k] = Entry(n)], k + 1)
               [] params[k].type = "d" ->
                    IF a.kind = "other"
                    THEN [status |-> "number expected", args |-> args, written |-> k - 1]
                    ELSE IF ~(ToSize(n) < size)
                         THEN [status |-> "bad ddof",
                               args |-> [args EXCEPT ![k] = Entry(ToSize(n))],
                               written |-> k]
                         ELSE CheckArgsLoopFixed(params, size, stack, index,
                                                 [args EXCEPT ![k] = Entry(ToSize(n))], k + 1)
               [] OTHER -> [status |-> "bad param type", args |-> args, written |-> k - 1]

\* while (params->name) { switch (params->type) ... params++; index++; args++; }
\* of linear_checkargs, from the k-th descriptor on: luaL_optnumber and
\* luaL_optinteger raise for a value that is no number, the ddof is stored as
\* a size_t and then checked against size
RECURSIVE CheckArgsLoop(_, _, _, _, _, _)
CheckArgsLoop(params, size, stack, index, args, k) ==
    IF k > Len(params) THEN [status |-> "ok", args |-> args, written |-> k - 1]
    ELSE LET a == StackArg(stack, index)
             n == IF a.kind = "none" THEN params[k].def ELSE a.n
         IN  CASE params[k].type = "n" ->
                    IF a.kind = "other"
                    THEN [status |-> "number expected", args |-> args, written |-> k - 1]
                    ELSE CheckArgsLoop(params, size, stack, index + 1,
                                       [args EXCEPT ![k] = Entry(n)], k + 1)
               [] params[k].type = "d" ->
                    IF a.kind = "other"
                    THEN [status |-> "number expected", args |-> args, written |-> k - 1]
                    ELSE IF ~(ToSize(n) < size)
                         THEN [status |-> "bad ddof",
                               args |-> [args EXCEPT ![k] = Entry(ToSize(n))],
                               written |-> k]
                         ELSE CheckArgsLoop(params, size, stack, index + 1,
                                            [args EXCEPT ![k] = Entry(ToSize(n))], k + 1)
               [] OTHER -> [status |-> "bad param type", args |-> args, written |-> k - 1]

\* linear_checkargs(L, params, size, index, args)
LinearCheckArgs(params, size, stack, index) ==
    CheckArgsLoop(params, size, stack, index, NoArgs, 1)

\* the Lua stacks of a call: the vector at position 1, then up to MaxArgs
\* values, each nil, a number or a value that is no number
RECURSIVE Stacks(_)
Stacks(n) ==
    IF n = 0 THEN {<<NotNumber>>}
    ELSE Stacks(n - 1) \cup {Append(s, a) : s \in Stacks(n - 1), a \in BinaryArgs}

\* a function of the unary engine declared with the list params, called on the
\* vector x: linear_checkargs(L, params, x->length, 2, args), then the
\* function, which changes no vector
UnaryParams(params, x, stack) ==
    /\ Idle
    /\ x \in LiveVectors
    /\ last' = Call("unary", LinearCheckArgs(params, x.length, stack, 2).status, NoView)
    /\ UNCHANGED <<views, bufs, iter, uaf>>

\* ------------------------------------------------------------ nested apply

\* the interpreter handles: the main thread and a coroutine
Threads == {"main", "co"}

\* the values on the stack of a handle
Fn == [kind |-> "function", n |-> 0]
Nm(n) == [kind |-> "number", n |-> n]
Ud == [kind |-> "userdata", n |-> 0]

\* a run of linear_apply: the contents, linear_TL, the stack of every handle
\* and "ok" or the way the run has ended
ApplyRun(m) ==
    [mem |-> m, TL |-> "main", stack |-> [t \in Threads |-> <<>>], status |-> "ok"]

\* the callback of the outer apply runs linear.apply(y, g) in its at-th call,
\* on the handle thread; at = 0: the callback runs no apply
Nest(at, thread, y) == [at |-> at, thread |-> thread, y |-> y]
NoNest == Nest(0, "main", NoView)

\* the runs after an access to a stack slot that does not exist (undefined):
\* from element i on, any double may be stored and the run may end anywhere
RECURSIVE ApplyUndefined(_, _, _)
ApplyUndefined(r, x, i) ==
    {[r EXCEPT !.status = "undefined"]}
       \cup (IF i >= x.length THEN {}
             ELSE UNION {ApplyUndefined(
                             [r EXCEPT !.mem[x.data].vals[x.values + i * x.inc + 1] = g],
                             x, i + 1) : g \in Values})

\* lua_settop(L, 2); linear_TL = L of linear_apply on the handle thread: the
\* vector and the function are the frame of the call
ApplyEnter(r, thread) ==
    [r EXCEPT !.TL = thread, !.stack[thread] = @ \o <<Ud, Fn>>]

\* the return of linear_apply: its frame leaves the stack; linear_TL stays
ApplyLeave(r, thread) ==
    [r EXCEPT !.stack[thread] = SubSeq(@, 1, Len(@) - 2)]

\* linear_apply_handler from element i on: lua_pushvalue(linear_TL, -1),
\* lua_pushnumber(linear_TL, *x), lua_call(linear_TL, 1, 1), in which the
\* callback may run the nested apply, *x = lua_tonumber(linear_TL, -1),
\* lua_pop(linear_TL, 1); the set of the runs that can come out
RECURSIVE ApplyHandler(_, _, _, _)
ApplyHandler(r, x, i, nest) ==
    IF i >= x.length \/ r.status # "ok" THEN {r}
    ELSE LET t == r.TL
             st == r.stack[t]
             addr == x.values + i * x.inc + 1
             v == r.mem[x.data].vals[addr]
         IN
         IF Len(st) = 0 THEN ApplyUndefined(r, x, i)
         ELSE IF st[Len(st)].kind # "function"
         THEN {[r EXCEPT !.status = "attempt to call"]}
         ELSE LET called == [r EXCEPT !.stack[t] = st \o <<Fn, Nm(v)>>]
                  inner == IF nest.at = i + 1
                           THEN {ApplyLeave(q, nest.thread) :
                                    q \in ApplyHandler(ApplyEnter(called, nest.thread),
                                                       nest.y, 0, NoNest)}
                           ELSE {called}
              IN  UNION {
                    IF q.status # "ok" THEN {q}
                    ELSE LET back == [q EXCEPT !.stack[t] = st \o <<Nm(CallbackValue(v))>>]
                             top == back.stack[back.TL]
                         IN  IF Len(top) = 0 THEN ApplyUndefined(back, x, i)
                             ELSE ApplyHandler(
                                      [back EXCEPT
                                          !.mem[x.data].vals[addr] =
                                              IF top[Len(top)].kind = "number"
                                              THEN top[Len(top)].n ELSE 0,
                                          !.stack[back.TL] = SubSeq(top, 1, Len(top) - 1)],
                                      x, i + 1, nest)
                    : q \in inner}

\* linear.apply(x, f) on the main thread, f running linear.apply(y, g) in its
\* at-th call on the handle thread
ApplyNestedRuns(m, x, y, at, thread) ==
    ApplyHandler(ApplyEnter(ApplyRun(m), "main"), x, 0, Nest(at, thread, y))

ApplyNested(x, y, at, thread) ==
    /\ Idle
    /\ x \in LiveVectors /\ y \in LiveVectors
    /\ \E r \in ApplyNestedRuns(bufs, x, y, at, thread) :
          /\ Followed(r.mem)
          /\ bufs' = r.mem
          /\ last' = Call("apply", r.status, NoView)
    /\ UNCHANGED <<views, iter, uaf>>

\* -------------------------------------------------------------------- rank

\* the doubles of rank: a format with MantissaBits bits of mantissa and
\* exponents from MinExp to MaxExp, round to nearest, ties to even, and 0
\* below the least exponent, in place of the 53 bits of a double
MantissaBits == 2
MinExp == 0 - 6
MaxExp == 6
Pow2(e) == IF e >= 0 THEN <<2 ^ e, 1>> ELSE <<1, 2 ^ (0 - e)>>
RatAbs(a) == IF a[1] < 0 THEN <<0 - a[1], a[2]>> ELSE a
RatNeg(a) == <<0 - a[1], a[2]>>
RatLe(a, b) == a[1] * b[2] <= b[1] * a[2]
RatLt(a, b) == a[1] * b[2] < b[1] * a[2]
\* a / b for b > 0
RatQuot(a, b) == <<a[1] * b[2], a[2] * b[1]>>

\* the greatest exponent e, from e on, with 2^e <= a
RECURSIVE Exponent(_, _)
Exponent(a, e) ==
    IF e >= MaxExp \/ ~RatLe(Pow2(e + 1), a) THEN e ELSE Exponent(a, e + 1)

\* the integer nearest to a >= 0, the even one of two
RoundHalfEven(a) ==
    LET f == a[1] \div a[2]
        twice == 2 * (a[1] % a[2])
    IN  IF twice < a[2] THEN f
        ELSE IF twice > a[2] THEN f + 1
        ELSE IF f % 2 = 0 THEN f ELSE f + 1

\* the fraction in lowest terms
RECURSIVE Gcd(_, _)
Gcd(a, b) == IF b = 0 THEN a ELSE Gcd(b, a % b)
Lowest(a) ==
    LET g == Gcd(RatAbs(a)[1], a[2]) IN <<a[1] \div g, a[2] \div g>>

\* the double nearest to the fraction a
Fl(a) ==
    IF a[1] = 0 \/ ~RatLe(Pow2(MinExp), RatAbs(a)) THEN <<0, 1>>
    ELSE LET ulp == Pow2(Exponent(RatAbs(a), MinExp) - MantissaBits + 1)
             r == Lowest(RatMul(<<RoundHalfEven(RatQuot(RatAbs(a), ulp)), 1>>, ulp))
         IN  IF a[1] < 0 THEN RatNeg(r) ELSE r

\* a double of every exponent of the integers that the vectors of rank hold
RankValues == {0 - 8, 0, 1, 2}

\* s with v put before its first element that is not below v
RECURSIVE Insert(_, _)
Insert(s, v) ==
    IF s = <<>> THEN <<v>>
    ELSE IF v <= Head(s) THEN <<v>> \o s
    ELSE <<Head(s)>> \o Insert(Tail(s), v)

\* s[i] = *v; v += x->inc for the elements of x, then qsort with
\* linear_comparison_handler: the elements from the i-th on, ascending
RECURSIVE SortedCopy(_, _, _)
SortedCopy(m, x, i) ==
    IF i > x.length THEN <<>>
    ELSE Insert(SortedCopy(m, x, i + 1), m[x.data].vals[VectorAddr(x, i)])

\* a search that goes up at an element equal to the quantile
RECURSIVE RankSearchUpOnEqual(_, _, _, _, _)
RankSearchUpOnEqual(s, quantile, lower, upper, steps) ==
    IF ~(lower <= upper)
    THEN [lower |-> lower, upper |-> upper, steps |-> steps, status |-> "done"]
    ELSE LET mid == (lower + upper) \div 2 IN
         IF mid >= Len(s) \/ steps > Len(s)
         THEN [lower |-> lower, upper |-> upper, steps |-> steps, status |-> "out of bounds"]
         ELSE IF s[mid + 1] <= quantile
              THEN RankSearchUpOnEqual(s, quantile, ToSize(mid + 1), upper, steps + 1)
              ELSE RankSearchUpOnEqual(s, quantile, lower, ToSize(mid - 1), steps + 1)

\* while (lower <= upper) { mid = (lower + upper) / 2; if (s[mid] < quantile)
\* lower = mid + 1; else upper = mid - 1; } with size_t indices; a mid past
\* the end of s, or more steps than s has elements, ends the model's run
RECURSIVE RankSearch(_, _, _, _, _)
RankSearch(s, quantile, lower, upper, steps) ==
    IF ~(lower <= upper)
    THEN [lower |-> lower, upper |-> upper, steps |-> steps, status |-> "done"]
    ELSE LET mid == (lower + upper) \div 2 IN
         IF mid >= Len(s) \/ steps > Len(s)
         THEN [lower |-> lower, upper |-> upper, steps |-> steps, status |-> "out of bounds"]
         ELSE IF s[mid + 1] < quantile
              THEN RankSearch(s, quantile, ToSize(mid + 1), upper, steps + 1)
              ELSE RankSearch(s, quantile, lower, ToSize(mid - 1), steps + 1)

\* (upper + (quantile - s[upper]) / (s[lower] - s[upper])) / (x->length - 1):
\* the fraction without rounding, and the double that the code computes
RankExact(s, quantile, b) ==
    RatQuot(RatAdd(Rat(b.upper),
                   RatQuot(Rat(quantile - s[b.upper + 1]),
                           Rat(s[b.lower + 1] - s[b.upper + 1]))),
            Rat(Len(s) - 1))
RankDouble(s, quantile, b) ==
    Fl(RatQuot(Fl(RatAdd(Rat(b.upper),
                         Fl(RatQuot(Fl(Rat(quantile - s[b.upper + 1])),
                                    Fl(Rat(s[b.lower + 1] - s[b.upper + 1])))))),
               Rat(Len(s) - 1)))

\* the rank of one quantile in the sorted copy s of at least two elements
RankElement(s, quantile) ==
    IF quantile > s[1] /\ quantile < s[Len(s)]
    THEN LET b == RankSearch(s, quantile, 0, Len(s) - 1, 0) IN
         IF b.status = "done" /\ b.lower < Len(s) /\ b.upper < Len(s)
               /\ s[b.lower + 1] # s[b.upper + 1]
         THEN [branch |-> "search", search |-> b, exact |-> RankExact(s, quantile, b),
               value |-> RankDouble(s, quantile, b)]
         ELSE [branch |-> "undefined", search |-> b, exact |-> <<0, 1>>, value |-> <<0, 1>>]
    ELSE [branch |-> IF quantile <= s[1] THEN "zero" ELSE "one",
          search |-> [lower |-> 0, upper |-> 0, steps |-> 0, status |-> "done"],
          exact |-> IF quantile <= s[1] THEN <<0, 1>> ELSE <<1, 1>>,
          value |-> IF quantile <= s[1] THEN <<0, 1>> ELSE <<1, 1>>]

\* the ranks stored into the elements of q from the i-th on
RECURSIVE RankLoop(_, _, _, _)
RankLoop(m, s, q, i) ==
    IF i > q.length THEN m
    ELSE RankLoop([m EXCEPT ![q.data].vals[VectorAddr(q, i)] =
                       Double(Term(FALSE, RankElement(s, @).value))],
                  s, q, i + 1)

RankStatus(x) == IF x.length >= 2 THEN "ok" ELSE "dimension mismatch"

\* linear_rank(x, q): the elements of q become their ranks in x; the calls
\* that store a rank other than 0 and 1 are not followed
Rank(x, q) ==
    /\ Idle
    /\ x \in LiveVectors /\ q \in LiveVectors
    /\ IF RankStatus(x) # "ok"
       THEN bufs' = bufs
       ELSE /\ bufs' = RankLoop(bufs, SortedCopy(bufs, x, 1), q, 1)
            /\ \A i \in 1..q.length :
                  /\ RankElement(SortedCopy(bufs, x, 1), VectorIndex(bufs, q, i)).branch
                        # "undefined"
                  /\ VectorIndex(bufs', q, i) # Inexact
    /\ last' = Call("rank", RankStatus(x), NoView)
    /\ UNCHANGED <<views, iter, uaf>>

\* a vector x of MaxDim + 1 doubles and a vector q of one double, each double
\* any of RankValues
InitRank ==
    /\ \E xs \in [1..(MaxDim + 1) -> RankValues], qs \in [1..1 -> RankValues] :
          bufs = [b \in BufIds |->
                     IF b = 1 THEN [live |-> TRUE, refs |-> 1, size |-> MaxDim + 1, vals |-> xs]
                     ELSE IF b = 2 THEN [live |-> TRUE, refs |-> 1, size |-> 1, vals |-> qs]
                     ELSE NoBuf]
    /\ views = SetToBag({VectorView(MaxDim + 1, 1, 1, 0), VectorView(1, 1, 2, 0)})
    /\ last = NoCall
    /\ iter = NoIter
    /\ uaf = FALSE

\* ------------------------------------------------------------------ spline

\* linear_boundaries and linear_extrapolations
Boundaries == {"not-a-knot", "clamped", "natural"}
Extrapolations == {"none", "const", "linear", "cubic"}

\* the doubles of the knots, and the arguments of an interpolant
KnotValues == 0..3
Arguments == (0 - 1)..4

\* the spline of n polynomials: a userdata with the n + 1 knots spline->x at
\* data and the extrapolation; the coefficients a, b, c, d, which LAPACK
\* computes, are not kept
SplineView(n, extrapolation, data) ==
    [NoView EXCEPT !.kind = "spline", !.data = data, !.length = n, !.order = extrapolation]
LiveSplines == {S \in Live : S.kind = "spline"}

\* the argument checks of linear_spline and the loop over h[i]
SplineStatus(m, x, y, boundary) ==
    IF ~(x.length >= (IF boundary = "not-a-knot" THEN 4 ELSE 3)) THEN "bad dimension"
    ELSE IF x.length # y.length THEN "dimension mismatch"
    ELSE IF \E i \in 1..(x.length - 1) :
               ~(m[x.data].vals[VectorAddr(x, i + 1)] - m[x.data].vals[VectorAddr(x, i)] > 0)
    THEN "bad order"
    ELSE "ok"

\* spline->x[i] = x->values[i * x->inc] for i = 0..n
Knots(m, x) == [i \in 1..x.length |-> m[x.data].vals[VectorAddr(x, i)]]

\* linear_spline(x, y, boundary, extrapolation); lapack is what
\* LAPACKE_dgtsv returns
Spline(x, y, boundary, extrapolation, lapack) ==
    /\ Idle
    /\ x \in LiveVectors /\ y \in LiveVectors
    /\ IF SplineStatus(bufs, x, y, boundary) # "ok"
       THEN /\ last' = Call("spline", SplineStatus(bufs, x, y, boundary), NoView)
            /\ UNCHANGED <<views, bufs>>
       ELSE /\ HasSlot /\ \E b \in BufIds : ~bufs[b].live
            /\ IF lapack # 0
               THEN /\ last' = Call("spline", "internal error", NoView)
                    /\ UNCHANGED <<views, bufs>>
               ELSE /\ views' = views (+) SetToBag({SplineView(x.length - 1, extrapolation, NewBufId)})
                    /\ bufs' = [bufs EXCEPT ![NewBufId] =
                                   [live |-> TRUE, refs |-> 1, size |-> x.length,
                                    vals |-> Knots(bufs, x)]]
                    /\ last' = Call("spline", "ok",
                                    SplineView(x.length - 1, extrapolation, NewBufId))
    /\ UNCHANGED <<iter, uaf>>

\* a search that goes up only at a knot below the argument
RECURSIVE InterpolantSearchStrict(_, _, _, _, _)
InterpolantSearchStrict(xs, t, lower, upper, steps) ==
    IF ~(lower <= upper)
    THEN [lower |-> lower, upper |-> upper, steps |-> steps, status |-> "done"]
    ELSE LET mid == (lower + upper) \div 2 IN
         IF mid >= Len(xs) \/ steps > Len(xs)
         THEN [lower |-> lower, upper |-> upper, steps |-> steps, status |-> "out of bounds"]
         ELSE IF xs[mid + 1] < t
              THEN InterpolantSearchStrict(xs, t, ToSize(mid + 1), upper, steps + 1)
              ELSE InterpolantSearchStrict(xs, t, lower, ToSize(mid - 1), steps + 1)

\* while (lower <= upper) { mid = (lower + upper) / 2; if (spline->x[mid] <= x)
\* lower = mid + 1; else upper = mid - 1; } with size_t bounds; a mid past the
\* knots, or more steps than there are knots, ends the model's run
RECURSIVE InterpolantSearch(_, _, _, _, _)
InterpolantSearch(xs, t, lower, upper, steps) ==
    IF ~(lower <= upper)
    THEN [lower |-> lower, upper |-> upper, steps |-> steps, status |-> "done"]
    ELSE LET mid == (lower + upper) \div 2 IN
         IF mid >= Len(xs) \/ steps > Len(xs)
         THEN [lower |-> lower, upper |-> upper, steps |-> steps, status |-> "out of bounds"]
         ELSE IF xs[mid + 1] <= t
              THEN InterpolantSearch(xs, t, ToSize(mid + 1), upper, steps + 1)
              ELSE InterpolantSearch(xs, t, lower, ToSize(mid - 1), steps + 1)

\* linear_interpolant for the knots xs (n = Len(xs) - 1 polynomials) and the
\* argument t: the branch taken, the polynomial used and the error raised
InterpolantResult(xs, extrapolation, t) ==
    LET n == Len(xs) - 1 IN
    IF t >= xs[1] /\ t <= xs[n + 1]
    THEN LET b == InterpolantSearch(xs, t, 0, n - 1, 0) IN
         [branch |-> "interpolation", search |-> b, k |-> b.upper,
          status |-> IF b.status = "done" /\ b.upper <= n - 1 THEN "ok" ELSE "undefined"]
    ELSE [branch |-> IF t < xs[1] THEN "left" ELSE "right",
          search |-> [lower |-> 0, upper |-> 0, steps |-> 0, status |-> "done"],
          k |-> IF t < xs[1] THEN 0 ELSE n - 1,
          status |-> IF extrapolation # "none" THEN "ok"
                     ELSE IF t < xs[1] THEN "too small" ELSE "too large"]

\* the call S(t) of the closure that linear_spline returns
Interpolant(S, t) ==
    /\ Idle
    /\ S \in LiveSplines
    /\ last' = Call("interpolant",
                    InterpolantResult(bufs[S.data].vals, S.order, t).status, NoView)
    /\ UNCHANGED <<views, bufs, iter, uaf>>

\* a vector of MaxDim + 2 doubles, each any of KnotValues
InitSpline ==
    /\ \E xs \in [1..(MaxDim + 2) -> KnotValues] :
          bufs = [b \in BufIds |->
                     IF b = 1 THEN [live |-> TRUE, refs |-> 1, size |-> MaxDim + 2, vals |-> xs]
                     ELSE NoBuf]
    /\ views = SetToBag({VectorView(MaxDim + 2, 1, 1, 0)})
    /\ last = NoCall
    /\ iter = NoIter
    /\ uaf = FALSE

\* ---------------------------------------------------------- specifications

\* the structural functions on up to MaxBufs allocations
Next ==
    \/ Return
    \/ \E n \in LuaInts : Vector(n)
    \/ \E r \in LuaInts, c \in LuaInts, o \in Orders : Matrix(r, c, o)
    \/ \E x \in Live : Gc(x)
    \/ \E x \in Live, a \in OptInts, b \in OptInts : Sub(x, a, b)
    \/ \E X \in Live, t \in SubMatrixCalls : SubMatrix(X, t[1], t[2], t[3], t[4])
    \/ \E X \in Live, i \in LuaInts : Tvector(X, i)
    \/ \E X \in Live, i \in LuaInts : MatrixIndex(X, i)

Spec == Init /\ [][Next]_vars

NoLiveBuf == \A b \in BufIds : ~bufs[b].live

\* the structural functions and element writes, one allocation at a time
NextElem ==
    \/ Return
    \/ NoLiveBuf /\ \E n \in LuaInts : Vector(n)
    \/ NoLiveBuf /\ \E r \in LuaInts, c \in LuaInts, o \in Orders : Matrix(r, c, o)
    \/ \E x \in Live : Gc(x)
    \/ \E x \in Live, a \in OptInts, b \in OptInts : Sub(x, a, b)
    \/ \E X \in Live, t \in SubMatrixInts : SubMatrix(X, t[1], t[2], t[3], t[4])
    \/ \E X \in Live, i \in LuaInts : Tvector(X, i)
    \/ \E X \in Live, i \in LuaInts : MatrixIndex(X, i)
    \/ \E x \in Live, i \in LuaInts, value \in Values : Newindex(x, i, value)

SpecElem == Init /\ [][NextElem]_vars

\* the same with the generic for loop over a matrix
NextIter ==
    \/ NextElem
    \/ \E X \in Live : MatrixIpairs(X)
    \/ MatrixNext

SpecIter == Init /\ [][NextIter]_vars

\* a matrix as the first allocation, its sub-views and transposed vectors,
\* vectors, element writes, unwind and reshape
NextPack ==
    \/ Return
    \/ \E n \in LuaInts : Vector(n)
    \/ NoLiveBuf /\ \E r \in LuaInts, c \in LuaInts, o \in Orders : Matrix(r, c, o)
    \/ \E x \in Live : Gc(x)
    \/ \E X \in Live, t \in SubMatrixInts : SubMatrix(X, t[1], t[2], t[3], t[4])
    \/ \E X \in Live, i \in LuaInts : Tvector(X, i)
    \/ \E x \in Live, i \in LuaInts, value \in Values : Newindex(x, i, value)
    \/ \E args \in PackArgs : Reshape(args)
    \/ \E args \in PackArgs : Unwind(args)

SpecPack == Init /\ [][NextPack]_vars

\* a matrix as the first allocation, its sub-views and transposed vectors,
\* vectors, element writes and the unary engine
NextUnary ==
    \/ Return
    \/ \E n \in LuaInts : Vector(n)
    \/ NoLiveBuf /\ \E r \in LuaInts, c \in LuaInts, o \in Orders : Matrix(r, c, o)
    \/ \E x \in Live : Gc(x)
    \/ \E X \in Live, t \in SubMatrixInts : SubMatrix(X, t[1], t[2], t[3], t[4])
    \/ \E X \in Live, i \in LuaInts : Tvector(X, i)
    \/ \E x \in Live, i \in LuaInts, value \in Values : Newindex(x, i, value)
    \/ \E f \in UnaryFunctions, x \in Live, a \in OptInts : Unary(f, x, a)
    \/ \E f \in UnaryFunctions, X \in Live, y \in Live, o \in Orders, a \in OptInts :
          UnaryMatrix(f, X, y, o, a)

SpecUnary == Init /\ [][NextUnary]_vars

\* the extents and indexes tried with the binary functions
Dims == 1..MaxDim

\* the optional arguments tried with f: swap, copy and apply read none
ArgsFor(f) == IF HasAlpha(f) THEN BinaryArgs ELSE {NoArg, NotNumber}

\* the element orders tried: both when the operands share a double
DirectionsFor(xs, ys) == IF xs \cap ys = {} THEN {"up"} ELSE Directions

\* the binary functions on vectors, matrices and their views
NextBinary ==
    \/ Return
    \/ \E n \in Dims : Vector(n)
    \/ NoLiveBuf /\ \E r \in Dims, c \in Dims, o \in Orders : Matrix(r, c, o)
    \/ \E x \in Live : Gc(x)
    \/ \E X \in LiveMatrices, t \in SubMatrixInts : SubMatrix(X, t[1], t[2], t[3], t[4])
    \/ \E X \in LiveMatrices, i \in Dims : Tvector(X, i)
    \/ \E x \in LiveVectors, i \in Dims, value \in Values : Newindex(x, i, value)
    \/ \E f \in BinaryFunctions, x \in LiveVectors, y \in LiveVectors :
          \E a \in ArgsFor(f), dir \in DirectionsFor(VectorCells(x), VectorCells(y)) :
             BinaryVector(f, x, y, a, dir)
    \/ \E f \in BinaryFunctions, x \in LiveVectors, Y \in LiveMatrices, o \in Orders :
          \E a \in ArgsFor(f), dir \in DirectionsFor(VectorCells(x), MatrixCells(Y)) :
             BinaryVectorMatrix(f, x, Y, o, a, dir)
    \/ \E f \in BinaryFunctions, X \in LiveMatrices, Y \in LiveMatrices :
          \E a \in ArgsFor(f), dir \in DirectionsFor(MatrixCells(X), MatrixCells(Y)) :
             BinaryMatrix(f, X, Y, a, dir)

SpecBinary == Init /\ [][NextBinary]_vars

\* the callbacks tried with f: only apply has one
CallbacksFor(f) == IF f = "apply" THEN Callbacks ELSE {NotFunction}

\* the elementary functions on a matrix of either order and its views
NextElementary ==
    \/ Return
    \/ NoLiveBuf /\ \E r \in Dims, c \in Dims, o \in Orders : Matrix(r, c, o)
    \/ \E x \in Live : Gc(x)
    \/ \E X \in LiveMatrices, t \in SubMatrixInts : SubMatrix(X, t[1], t[2], t[3], t[4])
    \/ \E X \in LiveMatrices, i \in Dims : Tvector(X, i)
    \/ \E f \in ElementaryFunctions, v \in Live :
          \E a \in ArgsFor(f), cb \in CallbacksFor(f) : Elementary(f, v, a, cb)

SpecElementary == Init /\ [][NextElementary]_vars

\* the programs of the external libraries on a matrix and its views
NextProgram ==
    \/ Return
    \/ NoLiveBuf /\ \E r \in Dims, c \in Dims, o \in Orders : Matrix(r, c, o)
    \/ \E x \in Live : Gc(x)
    \/ \E X \in LiveMatrices, t \in SubMatrixInts : SubMatrix(X, t[1], t[2], t[3], t[4])
    \/ \E A \in LiveMatrices, B \in LiveMatrices, C \in LiveMatrices :
          \E ta \in Transposes, tb \in Transposes : Gemm(A, B, C, ta, tb)
    \/ \E A \in LiveMatrices, B \in LiveMatrices, alloc \in BOOLEAN, result \in LapackStatuses :
          Gesv(A, B, alloc, result)
    \/ \E A \in LiveMatrices, alloc \in BOOLEAN, lu \in LapackStatuses, tri \in LapackStatuses :
          Inv(A, alloc, lu, tri)
    \/ \E A \in LiveMatrices, copy \in BOOLEAN, alloc \in BOOLEAN, lu \in LapackStatuses :
          Det(A, copy, alloc, lu)

SpecProgram == Init /\ [][NextProgram]_vars

\* the dimensions tried with the constructors: the small ones, and the ends
\* of the range of a lua_Integer of the width of size_t
DimArgs == LuaInts \cup {IntMax, 0 - IntMax - 1}

\* the constructors and size
NextCreate ==
    \/ Return
    \/ \E n \in DimArgs : Vector(n)
    \/ \E r \in DimArgs, c \in DimArgs, o \in OrderArgs : Matrix(r, c, o)
    \/ \E x \in Live : Gc(x)
    \/ \E x \in Live : Size(x)

SpecCreate == Init /\ [][NextCreate]_vars

\* the generic for loop over a vector, a transposed vector or a sub of one,
\* with element writes in the loop body
NextVectorIter ==
    \/ Return
    \/ NoLiveBuf /\ \E n \in Dims : Vector(n)
    \/ NoLiveBuf /\ \E r \in Dims, c \in Dims, o \in Orders : Matrix(r, c, o)
    \/ \E x \in Live : Gc(x)
    \/ \E x \in LiveVectors, a \in OptInts, b \in OptInts : Sub(x, a, b)
    \/ \E X \in LiveMatrices, i \in Dims : Tvector(X, i)
    \/ \E x \in LiveVectors, i \in Dims, value \in Values : Newindex(x, i, value)
    \/ \E x \in LiveVectors : VectorIpairs(x)
    \/ VectorNext

SpecVectorIter == Init /\ [][NextVectorIter]_vars

\* the for loop calls the iterator again after every body, and every call
\* returns to the caller
FairVectorIter ==
    Init /\ [][NextVectorIter]_vars /\ SF_vars(VectorNext) /\ WF_vars(Return)

\* the loops with the pragma on the vectors of one matrix
NextParallel ==
    \/ Return
    \/ NoLiveBuf /\ \E r \in Dims, c \in Dims, o \in Orders : Matrix(r, c, o)
    \/ \E x \in Live : Gc(x)
    \/ \E X \in LiveMatrices, i \in Dims : Tvector(X, i)
    \/ \E X \in LiveMatrices, i \in Dims : MatrixIndex(X, i)
    \/ \E x \in LiveVectors, i \in Dims, value \in Values : Newindex(x, i, value)
    \/ \E f \in OmpFunctions, alpha \in (0 - MaxAlpha)..MaxAlpha :
          \E x \in LiveVectors, y \in LiveVectors : Omp(f, alpha, x, y)

SpecParallel == Init /\ [][NextParallel]_vars

\* scal on the views of one matrix
NextScal ==
    \/ Return
    \/ NoLiveBuf /\ \E r \in Dims, c \in Dims, o \in Orders : Matrix(r, c, o)
    \/ \E x \in Live : Gc(x)
    \/ \E X \in LiveMatrices, t \in SubMatrixInts : SubMatrix(X, t[1], t[2], t[3], t[4])
    \/ \E X \in LiveMatrices, i \in Dims : Tvector(X, i)
    \/ \E v \in Live : Elementary("inc", v, Num(MaxVal), NotFunction)
    \/ \E v \in Live, a \in BinaryArgs : Scal(v, a)

SpecScal == Init /\ [][NextScal]_vars

\* the calls of functions with parameter lists on vectors
NextParams ==
    \/ Return
    \/ \E n \in Dims : Vector(n)
    \/ \E x \in Live : Gc(x)
    \/ \E x \in LiveVectors, s \in OptInts, e \in OptInts : Sub(x, s, e)
    \/ \E params \in ParamLists, x \in LiveVectors, stack \in Stacks(MaxArgs) :
          UnaryParams(params, x, stack)

SpecParams == Init /\ [][NextParams]_vars

\* apply with callbacks that run apply, on the vectors of one matrix
NextNested ==
    \/ Return
    \/ NoLiveBuf /\ \E r \in Dims, c \in Dims, o \in Orders : Matrix(r, c, o)
    \/ \E x \in Live : Gc(x)
    \/ \E X \in LiveMatrices, i \in Dims : Tvector(X, i)
    \/ \E X \in LiveMatrices, i \in Dims : MatrixIndex(X, i)
    \/ \E x \in LiveVectors, y \in LiveVectors, at \in 0..MaxDim, thread \in Threads :
          ApplyNested(x, y, at, thread)

SpecNested == Init /\ [][NextNested]_vars

\* rank on two vectors and their sub-vectors
NextRank ==
    \/ Return
    \/ \E x \in Live : Gc(x)
    \/ \E x \in LiveVectors, s \in OptInts, e \in OptInts : Sub(x, s, e)
    \/ \E x \in LiveVectors, q \in LiveVectors : Rank(x, q)

SpecRank == InitRank /\ [][NextRank]_vars

\* splines of a vector and of its sub-vectors, and their interpolants
NextSpline ==
    \/ Return
    \/ \E x \in Live : Gc(x)
    \/ \E x \in LiveVectors, s \in OptInts, e \in OptInts : Sub(x, s, e)
    \/ \E x \in LiveVectors, y \in LiveVectors, boundary \in Boundaries :
          \E extrapolation \in Extrapolations, lapack \in 0..1 :
             Spline(x, y, boundary, extrapolation, lapack)
    \/ \E S \in LiveSplines, t \in Arguments : Interpolant(S, t)

SpecSpline == InitSpline /\ [][NextSpline]_vars

\* ------------------------------------------------------------------ claims

\* the number of userdata objects whose data pointer is allocation b
NViews(b) == BagCardinality([x \in {y \in Live : y.data = b} |-> views[x]])

DeriveOps == {"sub", "tvector", "index", "next"}

\* a call has just pushed a derived view
Derived(call) == call.op \in DeriveOps /\ call.res # NoView

C1_Count == \A b \in BufIds : bufs[b].live => bufs[b].refs = NViews(b)

C1_Step ==
    /\ (last'.op \in {"vector", "matrix"} /\ last'.status = "ok")
          => /\ ~bufs[last'.res.data].live
             /\ bufs'[last'.res.data].refs = 1
    /\ Derived(last')
          => bufs'[last'.res.data].refs = bufs[last'.res.data].refs + 1
    /\ \A x \in Live :
          (last'.op = "gc" /\ views' = views (-) SetToBag({x}) /\ bufs'[x.data].live)
             => bufs'[x.data].refs = bufs[x.data].refs - 1
    /\ \A b \in BufIds :
          (bufs[b].live /\ bufs'[b].live /\ bufs'[b].refs # bufs[b].refs)
             => /\ last'.op = "gc" \/ Derived(last')
                /\ NViews(b)' # NViews(b)

C2_Alive ==
    /\ ~uaf
    /\ \A x \in Live :
          /\ bufs[x.data].live
          /\ Len(bufs[x.data].vals) = bufs[x.data].size
    /\ \A x \in LiveVectors : \A i \in 1..x.length :
          VectorAddr(x, i) \in DOMAIN bufs[x.data].vals
    /\ \A b \in BufIds : bufs[b].live => NViews(b) >= 1

C2_Step ==
    \A x \in Live :
        (last'.op = "gc" /\ views' = views (-) SetToBag({x}))
           => /\ bufs[x.data].live
              /\ bufs'[x.data].live <=> NViews(x.data) > 1
              /\ last'.status = "freed" <=> NViews(x.data) = 1
              /\ \A b \in BufIds : b # x.data => bufs'[b] = bufs[b]

\* C2: the storage of an allocation stays allocated while at least one live
\* view references it, whatever the order in which the views are destroyed;
\* it is freed by the destroy of the last view, and no destroy frees an
\* allocation that is already freed.
C2_FreedAtLast == []C2_Alive /\ [][C2_Step]_vars

\* the owning view was destroyed first: a derived view is alone on its
\* allocation, which is still allocated
C2_Witness ==
    /\ last.op = "gc" /\ last.status = "ok"
    /\ \E x \in LiveVectors :
          /\ NViews(x.data) = 1
          /\ x.values > 0
          /\ bufs[x.data].live

BadRange(a, b, extent) ==
    LET start == OptInteger(a, 1)
        end == OptInteger(b, extent)
    IN  ~(start \in 1..extent) \/ ~(end \in start..extent)

C5_Fails ==
    /\ \A x \in LiveVectors : \A a \in OptInts, b \in OptInts :
          BadRange(a, b, x.length) => SubResult(x, a, b) = Err("bad index")
    /\ \A X \in LiveMatrices : \A t \in SubMatrixCalls :
          (BadRange(t[1], t[3], X.rows) \/ BadRange(t[2], t[4], X.cols))
             => SubMatrixResult(X, t[1], t[2], t[3], t[4]) = Err("bad index")

C5_Step ==
    (last'.op = "sub" /\ last'.status = "bad index")
       => /\ views' = views
          /\ bufs' = bufs
          /\ last'.res = NoView

\* C5: sub with a start outside 1..extent or an end outside start..extent (of
\* a vector, or of the row or the column range of a matrix, negative values
\* included) fails with "bad index"; the failed call creates no view and
\* changes no refcount and no element.
C5_SubBadIndex == []C5_Fails /\ [][C5_Step]_vars

\* sub has just failed on a matrix sub-view
C5_Witness ==
    /\ last.op = "sub" /\ last.status = "bad index"
    /\ \E X \in LiveMatrices :
          /\ X.values > 0
          /\ SubMatrixResult(X, <<0 - 1>>, <<>>, <<>>, <<>>) = Err("bad index")
          /\ SubMatrixResult(X, <<>>, <<1>>, <<>>, <<X.cols + 1>>) = Err("bad index")

C4_Vector ==
    \A v \in LiveVectors : \A start \in 1..v.length : \A end \in start..v.length :
        LET r == SubResult(v, <<start>>, <<end>>)
            s == r.view
        IN
        /\ r.status = "ok"
        /\ s.kind = "vector"
        /\ s.length = end - start + 1
        /\ \A i \in 1..(end - start + 1) :
              /\ VectorIndex(bufs, s, i) = VectorIndex(bufs, v, start - 1 + i)
              /\ \A value \in Values :
                    /\ Store(bufs, s, i, value) = Store(bufs, v, start - 1 + i, value)
                    /\ VectorIndex(Store(bufs, s, i, value), v, start - 1 + i) = value
                    /\ VectorIndex(Store(bufs, v, start - 1 + i, value), s, i) = value
                    /\ \A k \in 1..v.length :
                          k # start - 1 + i
                             => VectorIndex(Store(bufs, s, i, value), v, k)
                                    = VectorIndex(bufs, v, k)
                    /\ \A k \in 1..s.length :
                          k # i
                             => VectorIndex(Store(bufs, v, start - 1 + i, value), s, k)
                                    = VectorIndex(bufs, s, k)

C4_Matrix ==
    \A X \in LiveMatrices : \A t \in SubMatrixInts :
        (t[1][1] <= t[3][1] /\ t[3][1] <= X.rows /\ t[2][1] <= t[4][1] /\ t[4][1] <= X.cols)
           => LET rowstart == t[1][1]
                  colstart == t[2][1]
                  res == SubMatrixResult(X, t[1], t[2], t[3], t[4])
                  S == res.view
              IN
              /\ res.status = "ok"
              /\ S.kind = "matrix"
              /\ S.rows = t[3][1] - rowstart + 1
              /\ S.cols = t[4][1] - colstart + 1
              /\ S.order = X.order
              /\ \A r \in 1..S.rows, c \in 1..S.cols :
                    /\ MatrixGet(bufs, S, r, c)
                           = MatrixGet(bufs, X, rowstart - 1 + r, colstart - 1 + c)
                    /\ \A value \in Values :
                          /\ MatrixSet(bufs, S, r, c, value)
                                 = MatrixSet(bufs, X, rowstart - 1 + r, colstart - 1 + c, value)
                          /\ MatrixGet(MatrixSet(bufs, S, r, c, value), X,
                                       rowstart - 1 + r, colstart - 1 + c) = value
                          /\ MatrixGet(MatrixSet(bufs, X, rowstart - 1 + r, colstart - 1 + c,
                                                 value), S, r, c) = value

\* C4: for a vector view v of any stride and 1 <= start <= end <= length(v),
\* sub(v, start, end) has length end - start + 1, and a write of its element i
\* changes exactly the element read as v[start - 1 + i], and the other way
\* round; element (r, c) of sub(X, rowstart, colstart, rowend, colend) is
\* element (rowstart - 1 + r, colstart - 1 + c) of the matrix X in both orders.
C4_SubAliases == C4_Vector /\ C4_Matrix

\* a write has just gone through a strided vector whose second element is
\* the only element of a live sub-vector and holds a value other than 0
C4_Witness ==
    /\ last.op = "newindex" /\ last.status = "ok"
    /\ \E v \in LiveVectors : \E s \in LiveVectors :
          /\ v.inc >= 2 /\ v.length = 2
          /\ Ok(s) = SubResult(v, <<2>>, <<2>>)
          /\ VectorIndex(bufs, s, 1) = 1
          /\ VectorIndex(bufs, v, 2) = 1

C6_Step ==
    Derived(last')
       => /\ bufs[last'.res.data].live
          /\ \E p \in Live : p.data = last'.res.data
          /\ views' = views (+) SetToBag({last'.res})
          /\ \A b \in BufIds :
                /\ bufs'[b].live = bufs[b].live
                /\ bufs'[b].size = bufs[b].size
                /\ bufs'[b].vals = bufs[b].vals
                /\ bufs'[b].refs = bufs[b].refs + (IF b = last'.res.data THEN 1 ELSE 0)
          /\ uaf' = uaf

\* C6: a derive (sub, X[i], an iteration step, tvector) allocates no storage
\* and copies no element: the new view is on the allocation of its parent,
\* whose refcount rises by exactly one; every element, every other
\* allocation and every view that existed before is unchanged.
C6_DeriveFrame == [][C6_Step]_vars

\* an iteration step has just pushed a major vector whose first element
\* holds a value other than 0
C6_Witness ==
    /\ Derived(last) /\ last.op = "next"
    /\ VectorIndex(bufs, last.res, 1) = 1
    /\ bufs[last.res.data].refs >= 2

\* the major extent m of X has the right length and the right aliasing for
\* each 1 <= i <= m, for X[i] and for the iteration step after i - 1
C8_Index ==
    \A X \in LiveMatrices :
        LET m == IF X.order = "row" THEN X.rows ELSE X.cols
            n == IF X.order = "row" THEN X.cols ELSE X.rows
        IN
        /\ MatrixLen(X) = m
        /\ MatrixNextResult(X, m) = Ok(NoView)
        /\ \A i \in 1..m :
              /\ MatrixNextResult(X, i - 1) = MatrixIndexResult(X, i)
              /\ LET r == MatrixIndexResult(X, i) IN
                 /\ r.status = "ok"
                 /\ r.view.kind = "vector"
                 /\ r.view.data = X.data
                 /\ r.view.inc = 1
                 /\ r.view.length = n
                 /\ \A k \in 1..n :
                       VectorAddr(r.view, k) =
                           (IF X.order = "row" THEN MatrixAddr(X, i, k)
                                               ELSE MatrixAddr(X, k, i))

C8_Loop ==
    iter.X # NoView
       => /\ iter.ctl \in 0..MatrixLen(iter.X)
          /\ iter.yielded = [k \in 1..iter.ctl |-> k]

C8_Step ==
    /\ (last'.op \in {"index", "next"} /\ Derived(last'))
          => views' = views (+) SetToBag({last'.res})
    /\ (last'.op = "next" /\ Derived(last'))
          => /\ iter'.X = iter.X
             /\ iter'.ctl = iter.ctl + 1
             /\ iter'.yielded = Append(iter.yielded, iter.ctl + 1)
             /\ Ok(last'.res) = MatrixIndexResult(iter.X, iter.ctl + 1)
    /\ (last'.op = "next" /\ last'.status = "end")
          => /\ iter.yielded = [k \in 1..MatrixLen(iter.X) |-> k]
             /\ views' = views

\* C8: for a matrix X with major extent m and minor extent n, X[i] with
\* 1 <= i <= m and each iteration step push exactly one new vector of stride
\* 1 and length n on the allocation of X whose element k is the k-th element
\* of major vector i; #X is m; the loop yields 1..m in ascending order and
\* then ends.
C8_MajorVectors == [](C8_Index /\ C8_Loop) /\ [][C8_Step]_vars

\* the loop over a sub-view whose leading dimension exceeds its minor extent
\* has just yielded its second and last major vector
C8_Witness ==
    /\ last.op = "next" /\ Derived(last)
    /\ iter.yielded = <<1, 2>>
    /\ MatrixLen(iter.X) = 2
    /\ iter.X.ld > (IF iter.X.order = "row" THEN iter.X.cols ELSE iter.X.rows)
    /\ last.res.values = iter.X.values + iter.X.ld


\* the components of x and the elements of X as read on the allocations m
VectorValues(m, x) == [i \in 1..x.length |-> VectorIndex(m, x, i)]
MatrixValues(m, X) == [r \in 1..X.rows |-> [c \in 1..X.cols |-> MatrixGet(m, X, r, c)]]

\* the number of elements of the matrices Ms
RECURSIVE Elements(_)
Elements(Ms) ==
    IF Len(Ms) = 0 THEN 0
    ELSE Ms[1].rows * Ms[1].cols + Elements(Tail(Ms))

\* no two of the matrices Ms share a double; none shares one with x
NonOverlapping(Ms) ==
    \A i \in DOMAIN Ms, j \in DOMAIN Ms :
        i # j => MatrixCells(Ms[i]) \cap MatrixCells(Ms[j]) = {}
Separate(x, Ms) == \A i \in DOMAIN Ms : MatrixCells(Ms[i]) \cap VectorCells(x) = {}

\* the allocations with a different value in every double
Tokens ==
    [b \in BufIds |->
        [bufs[b] EXCEPT !.vals = [k \in 1..bufs[b].size |-> (b - 1) * MaxDoubles + k]]]

\* the contents that the round trips start from: the current one, and the
\* one that tells every double apart
Mems == {bufs, Tokens}

\* lists of live matrices, from least matrices on
MatrixLists(least) == UNION {[1..k -> LiveMatrices] : k \in least..(MaxArgs - 1)}

\* reshape(x, Ms...) then unwind(Ms..., y) succeed and leave in y the
\* components that x had
C9_Inverse(m, x, Ms, y) ==
    LET r == ReshapeResult(m, <<x>> \o Ms)
        u == UnwindResult(r.mem, Ms \o <<y>>)
    IN
    /\ r.status = "ok"
    /\ u.status = "ok"
    /\ VectorValues(u.mem, y) = VectorValues(m, x)
    /\ (y = x \/ VectorCells(y) \cap VectorCells(x) = {})
          => VectorValues(u.mem, y) = VectorValues(u.mem, x)

\* unwind(Ms..., x) then reshape(x, Ms...) succeed and leave the matrices as
\* they were
C9_Restores(m, x, Ms) ==
    LET u == UnwindResult(m, Ms \o <<x>>)
        r == ReshapeResult(u.mem, <<x>> \o Ms)
    IN
    /\ u.status = "ok"
    /\ r.status = "ok"
    /\ \A i \in DOMAIN Ms : MatrixValues(r.mem, Ms[i]) = MatrixValues(m, Ms[i])

\* x and Ms as the round trip takes them
C9_Pre(x, Ms) ==
    /\ NonOverlapping(Ms)
    /\ Separate(x, Ms)
    /\ Elements(Ms) = x.length

ArgErrors == {"linear.vector expected", "linear.matrix expected", "matrix too large"}

\* C10: unwind and reshape fail with an argument error whenever the matrices
\* of the call do not hold exactly as many elements as the vector has, be it
\* more (matrices after the one that completes the vector included) or fewer.
C10_CountMismatch ==
    \A x \in LiveVectors : \A Ms \in MatrixLists(0) :
        Elements(Ms) # x.length
           => /\ ReshapeResult(bufs, <<x>> \o Ms).status \in ArgErrors
              /\ UnwindResult(bufs, Ms \o <<x>>).status \in ArgErrors

\* the matrices among the arguments args
MatricesIn(args) == {i \in DOMAIN args : args[i].kind = "matrix"}

\* C11: a call of unwind or reshape with two or more matrices that fails (a
\* later matrix too large, too few matrices, a later argument that is no
\* matrix) has modified no element of the vector and of the matrices.
C11_NoPartialWrite ==
    \A m \in Mems : \A args \in PackArgs :
        Cardinality(MatricesIn(args)) >= 2
           => /\ ReshapeResult(m, args).status # "ok" => ReshapeResult(m, args).mem = m
              /\ UnwindResult(m, args).status # "ok" => UnwindResult(m, args).mem = m

\* the call with the optional ddof a on reductions over size elements is
\* accepted exactly when 0 <= ddof < size, fails with "bad ddof" otherwise,
\* and an accepted call divides by size - ddof >= 1
C12_Ddof(status, f, size, a) ==
    LET ddof == OptInteger(a, 0) IN
    /\ status = "ok" <=> (0 <= ddof /\ ddof < size)
    /\ status # "ok" => status = "bad ddof"
    /\ status = "ok"
          => /\ ToSize(size - CheckArgs(f, size, a).d) = size - ddof
             /\ ToSize(size - CheckArgs(f, size, a).d) >= 1

\* C12: var and std, on a vector and on a matrix in either requested order,
\* accept a call only if ddof is smaller than the number of elements of each
\* reduction (the length; cols for order "row", rows for order "col"); a
\* ddof >= that size or a negative ddof fails with "bad ddof", so that the
\* divisor size - ddof of an accepted call is >= 1.
C12_BadDdof ==
    \A f \in {"var", "std"} : \A a \in OptInts :
        /\ \A x \in LiveVectors : C12_Ddof(UnaryStatus(f, x, a), f, x.length, a)
        /\ \A X \in LiveMatrices : \A y \in LiveVectors : \A order \in Orders :
              y.length = (IF order = "row" THEN X.rows ELSE X.cols)
                 => C12_Ddof(UnaryMatrixStatus(f, X, y, order, a), f,
                             IF order = "row" THEN X.cols ELSE X.rows, a)

\* var has just failed with "bad ddof" while a matrix with more rows than
\* columns and a vector of its number of rows are live, for which ddof 1 is
\* too large in order "row" and accepted in order "col"
C12_Witness ==
    /\ last.op = "var" /\ last.status = "bad ddof"
    /\ \E X \in LiveMatrices : \E y \in LiveVectors :
          /\ X.rows > X.cols /\ y.length = X.rows
          /\ UnaryMatrixStatus("var", X, y, "row", <<1>>) = "bad ddof"
          /\ \E z \in LiveVectors :
                z.length = X.cols /\ UnaryMatrixStatus("std", X, z, "col", <<1>>) = "ok"

\* the statuses of a binary call that is not carried out
BinaryErrors == {"dimension mismatch", "order mismatch", "number expected"}

Along(Y, order) == IF order = "row" THEN Y.cols ELSE Y.rows

\* C14: a binary call with a vector x and a matrix Y is rejected with
\* "dimension mismatch", before any element of Y is touched, unless
\* length(x) = Y.cols for the order "row" or length(x) = Y.rows for the order
\* "col", whatever the storage order of Y; the kernel reads and writes no
\* double outside x and Y.
C14_VectorMatrix ==
    \A x \in LiveVectors : \A Y \in LiveMatrices : \A order \in Orders :
        /\ \A f \in BinaryFunctions : \A a \in {NoArg, Num(1)} :
              /\ BinaryVectorMatrixStatus(f, x, Y, order, a) =
                    (IF x.length = Along(Y, order) THEN "ok" ELSE "dimension mismatch")
              /\ x.length # Along(Y, order)
                    => \A m \in Mems : \A dir \in Directions :
                          BinaryVectorMatrixMem(m, f, x, Y, order, a, dir) = m
        /\ x.length = Along(Y, order) =>
              /\ BinaryTouched(x, Y, order) = VectorCells(x) \cup MatrixCells(Y)
              /\ VectorCells(x) \cap MatrixCells(Y) = {} =>
                    LET after == BinaryVectorMatrixMem(Tokens, "copy", x, Y, order, NoArg, "up") IN
                    /\ \A r \in 1..Y.rows : \A c \in 1..Y.cols :
                          MatrixGet(after, Y, r, c) =
                             VectorIndex(Tokens, x, IF order = "row" THEN c ELSE r)
                    /\ \A b \in BufIds : \A k \in DOMAIN Tokens[b].vals :
                          <<b, k>> \notin MatrixCells(Y) => after[b].vals[k] = Tokens[b].vals[k]

\* x has just been copied along the order that is not the storage order of a
\* sub-view Y, and a vector of another length is rejected
C14_Witness ==
    /\ last.op = "copy" /\ last.status = "ok"
    /\ \E x \in LiveVectors : \E Y \in LiveMatrices : \E order \in Orders :
          /\ order # Y.order
          /\ Y.ld > Minor(Y)
          /\ x.length = Along(Y, order)
          /\ VectorCells(x) \cap MatrixCells(Y) = {}
          /\ VectorIndex(bufs, x, 1) = 1
          /\ BinaryVectorMatrixMem(bufs, "copy", x, Y, order, NoArg, "up") = bufs
          /\ \E o \in Orders :
                BinaryVectorMatrixStatus("copy", x, Y, o, NoArg) = "dimension mismatch"

\* C15: every call of the dispatch engine that ends in an error leaves the
\* contents of every buffer exactly as before the call, apply with a callback
\* that raises an error on the k-th element included (elements 1..k-1 are
\* not left transformed).
C15_ErrorsAtomic ==
    [][(last'.op \in ElementaryFunctions /\ last'.status # "ok") => bufs' = bufs]_vars

\* the value that an elementary function leaves in the place of v
KernelValue(f, alpha, v) ==
    CASE f = "inc" -> v + alpha
      [] f = "set" -> alpha
      [] OTHER -> CallbackValue(v)

\* a packed matrix of the other storage order in another allocation, and the
\* contents in which it holds the elements of X as read on m
Other(b) == CHOOSE c \in BufIds : c # b
Twin(X) ==
    LET order == IF X.order = "row" THEN "col" ELSE "row" IN
    MatrixView(X.rows, X.cols, IF order = "row" THEN X.cols ELSE X.rows, order,
               Other(X.data), 0)
TwinMem(m, X) ==
    [m EXCEPT ![Other(X.data)] =
        [live |-> TRUE, refs |-> 1, size |-> X.rows * X.cols,
         vals |-> [k \in 1..(X.rows * X.cols) |->
                     IF X.order = "row"
                     THEN MatrixGet(m, X, ((k - 1) % X.rows) + 1, ((k - 1) \div X.rows) + 1)
                     ELSE MatrixGet(m, X, ((k - 1) \div X.cols) + 1, ((k - 1) % X.cols) + 1)]]]

\* C16: for two matrices holding the same logical values, one row-major and
\* one col-major, the same elementary function with the same parameters
\* leaves equal logical values at every (row, col) position: each element
\* becomes the value of the function for this element.
C16_OrderInvariant ==
    LET m == Tokens
        calls == {<<"inc", NoArg>>, <<"inc", Num(0 - MaxAlpha)>>, <<"set", NoArg>>,
                  <<"set", Num(0)>>, <<"apply", NoArg>>}
    IN
    \A X \in LiveMatrices :
        LET twin == Twin(X)
            mem == TwinMem(m, X)
        IN
        /\ MatrixValues(mem, twin) = MatrixValues(m, X)
        /\ \A c \in calls :
              LET one == ElementaryResult(m, c[1], X, c[2], Function(0))
                  two == ElementaryResult(mem, c[1], twin, c[2], Function(0))
              IN
              /\ one.status = "ok" /\ two.status = "ok"
              /\ MatrixValues(one.mem, X) = MatrixValues(two.mem, twin)
              /\ \A i \in 1..X.rows : \A j \in 1..X.cols :
                    MatrixGet(one.mem, X, i, j) =
                       KernelValue(c[1], CheckArgsAlpha(c[1], c[2]).n, MatrixGet(m, X, i, j))

\* inc has just filled a sub-view of two elements whose leading dimension
\* exceeds its minor extent
C16_Witness ==
    /\ last.op = "inc" /\ last.status = "ok"
    /\ \E X \in LiveMatrices :
          /\ X.ld > Minor(X)
          /\ X.rows * X.cols = 2
          /\ \A r \in 1..X.rows : \A c \in 1..X.cols : MatrixGet(bufs, X, r, c) = 1

\* the results of gesv, inv and det once the arguments are accepted
ProgramResults == {"true", "false", "zero", "determinant", "internal error"}

\* C19: for gesv, inv and det the status of the external factorization or
\* solve decides the outcome: 0 gives true (gesv, inv) or the determinant
\* (det), a positive status gives false (gesv, inv) or 0 (det) without an
\* error, a negative status raises "internal error"; inv and det take their
\* second step only after the LU factorization returned 0.
C19_StatusDecides ==
    /\ \A result \in LapackStatuses :
          /\ result = 0 => GesvOutcome(result) = "true"
          /\ result > 0 => GesvOutcome(result) = "false"
          /\ result < 0 => GesvOutcome(result) = "internal error"
    /\ \A lu \in LapackStatuses :
          /\ DetOutcome(lu).second <=> lu = 0
          /\ lu = 0 => DetOutcome(lu).status = "determinant"
          /\ lu > 0 => DetOutcome(lu).status = "zero"
          /\ lu < 0 => DetOutcome(lu).status = "internal error"
          /\ \A tri \in LapackStatuses :
                /\ InvOutcome(lu, tri).second <=> lu = 0
                /\ lu > 0 => InvOutcome(lu, tri).status = "false"
                /\ lu < 0 => InvOutcome(lu, tri).status = "internal error"
                /\ (lu = 0 /\ tri = 0) => InvOutcome(lu, tri).status = "true"
                /\ (lu = 0 /\ tri > 0) => InvOutcome(lu, tri).status = "false"
                /\ (lu = 0 /\ tri < 0) => InvOutcome(lu, tri).status = "internal error"
    /\ \A A \in LiveMatrices :
          A.rows = A.cols => SquareStatus(A, TRUE) = "ok" /\ GesvStatus(A, A, TRUE) = "ok"
    /\ last.op \in {"gesv", "inv", "det"} =>
          \/ last.status \in ProgramResults
          \/ last.status \in {"not square", "order mismatch", "dimension mismatch",
                               "cannot allocate indexes", "cannot allocate values"}
    /\ (last.op = "det" /\ last.status \in ProgramResults)
          => last.status \in {"zero", "determinant", "internal error"}
    /\ (last.op \in {"gesv", "inv"} /\ last.status \in ProgramResults)
          => last.status \in {"true", "false", "internal error"}

\* inv has just returned false for a square matrix of more than one element
C19_Witness ==
    /\ last.op = "inv" /\ last.status = "false"
    /\ \E A \in LiveMatrices : A.rows = A.cols /\ A.rows = MaxDim

\* C20: gemm(A, B, C, ta, tb) calls the external multiply only when the
\* operands are compatible: equal storage orders, equal inner dimensions of
\* op(A) (m x k) and op(B) (k x n), and C of shape m x n; otherwise it raises
\* an argument error, so that the library writes no double outside C.
C20_GemmCompatible ==
    \A A \in LiveMatrices : \A B \in LiveMatrices : \A C \in LiveMatrices :
        \A ta \in Transposes : \A tb \in Transposes :
            LET dims == GemmDims(A, B, ta, tb) IN
            GemmStatus(A, B, C, ta, tb) = "ok" =>
                /\ B.order = A.order /\ C.order = A.order
                /\ dims.ka = dims.kb
                /\ C.rows = dims.m /\ C.cols = dims.n
                /\ GemmCells(C, dims.m, dims.n) \subseteq MatrixCells(C)

\* the checks of the constructors accept the stated arguments only
C21_Checks ==
    /\ \A n \in DimArgs :
          /\ VectorStatus(n) = "ok" <=> (1 <= n /\ n <= IntMax)
          /\ VectorStatus(n) # "ok" => VectorStatus(n) = "bad dimension"
    /\ \A r \in DimArgs : \A c \in DimArgs : \A o \in OrderArgs :
          /\ MatrixStatus(r, c, o) = "ok"
                <=> /\ 1 <= r /\ r <= IntMax /\ 1 <= c /\ c <= IntMax
                    /\ o \in {"", "row", "col"}
          /\ ~(1 <= r /\ r <= IntMax /\ 1 <= c /\ c <= IntMax)
                => MatrixStatus(r, c, o) = "bad dimension"
          /\ MatrixStatus(r, c, o) = "ok"
                => CheckOrder(o).order = (IF o = "" THEN "row" ELSE o)
    /\ last.op \in {"vector", "matrix"}
          => last.status \in {"ok", "bad dimension", "invalid option"}
    /\ (last.op = "vector" /\ last.status = "ok") =>
          /\ last.res \in LiveVectors
          /\ last.res.length >= 1 /\ last.res.inc = 1 /\ last.res.values = 0
          /\ bufs[last.res.data].size = last.res.length
          /\ SizeResult(last.res).length = last.res.length
    /\ (last.op = "matrix" /\ last.status = "ok") =>
          /\ last.res \in LiveMatrices
          /\ last.res.rows >= 1 /\ last.res.cols >= 1 /\ last.res.values = 0
          /\ last.res.ld = (IF last.res.order = "row" THEN last.res.cols ELSE last.res.rows)
          /\ bufs[last.res.data].size = last.res.rows * last.res.cols
          /\ SizeResult(last.res).rows = last.res.rows
          /\ SizeResult(last.res).cols = last.res.cols
          /\ SizeResult(last.res).order = last.res.order

\* a step of matrix creates the matrix that the arguments ask for, a step
\* of vector the vector, and a failed step creates nothing
C21_Step ==
    /\ (last'.op = "matrix" /\ last'.status = "ok") =>
          \E r \in 1..MaxDim, c \in 1..MaxDim, o \in {"", "row", "col"} :
              /\ MatrixStatus(r, c, o) = "ok"
              /\ last'.res.rows = r /\ last'.res.cols = c
              /\ last'.res.order = CheckOrder(o).order
              /\ views' = views (+) SetToBag({last'.res})
    /\ (last'.op = "vector" /\ last'.status = "ok") =>
          \E n \in 1..MaxDim :
              /\ last'.res.length = n
              /\ views' = views (+) SetToBag({last'.res})
    /\ (last'.op \in {"vector", "matrix"} /\ last'.status # "ok") =>
          /\ views' = views /\ bufs' = bufs
    /\ last'.op = "size" =>
          /\ views' = views /\ bufs' = bufs
          /\ \E x \in Live : last'.res = SizeResult(x)

RECURSIVE VectorPairs(_, _, _)
VectorPairs(m, x, ctl) ==
    LET r == VectorNextResult(m, x, ctl) IN
    IF r.end THEN <<>>
    ELSE <<<<r.index, r.value>>>> \o VectorPairs(m, x, r.index)

\* a loop from 0 yields (1, x[1]) .. (n, x[n]); a running loop has yielded
\* the indexes up to its control value
C22_Pairs ==
    /\ \A m \in Mems : \A x \in LiveVectors :
          VectorPairs(m, x, 0) = [i \in 1..x.length |-> <<i, VectorIndex(m, x, i)>>]
    /\ iter.X # NoView =>
          /\ iter.X \in LiveVectors
          /\ iter.ctl \in 0..iter.X.length
          /\ Len(iter.yielded) = iter.ctl
          /\ \A k \in 1..iter.ctl : iter.yielded[k][1] = k

\* a step of the loop yields the next index with the element read at it, and
\* the loop ends after the last index only
C22_Step ==
    /\ (last'.op = "next" /\ last'.status = "ok") =>
          /\ iter'.X = iter.X
          /\ iter'.ctl = iter.ctl + 1
          /\ iter'.yielded =
                Append(iter.yielded, <<iter.ctl + 1, VectorIndex(bufs, iter.X, iter.ctl + 1)>>)
          /\ bufs' = bufs /\ views' = views
    /\ (last'.op = "next" /\ last'.status = "end") =>
          /\ iter.ctl = iter.X.length
          /\ iter' = NoIter
          /\ bufs' = bufs /\ views' = views
    /\ (last'.op = "ipairs") => iter'.ctl = 0 /\ iter'.yielded = <<>>

\* C22: iterating a vector view v of length n (any stride) from the control
\* value 0 yields exactly (1, v[1]), ..., (n, v[n]) in ascending order and
\* then terminates; the value yielded at i is the indexed read v[i]; the
\* iteration keeps no state besides the index, so that a second iteration
\* yields the same sequence.
C22_VectorLoop ==
    /\ []C22_Pairs
    /\ [][C22_Step]_vars
    /\ ((iter.X # NoView) ~> (iter.X = NoView))

\* the loop over a strided vector of two elements, the first of them 1, has
\* yielded both and is about to end
C22_Witness ==
    /\ last.op = "next" /\ last.status = "ok"
    /\ iter.X # NoView
    /\ iter.X.inc >= 2 /\ iter.X.length = 2
    /\ iter.yielded = <<<<1, 1>>, <<2, 0>>>>

\* C23: with the data-parallel mode active (size at or above the threshold)
\* every elementary and binary element loop leaves the buffers with the
\* contents that the sequential loop leaves, for every interleaving of its
\* iterations and every pair of operands, two overlapping views included.
C23_ParallelAsSequential ==
    \A m \in Mems : \A x \in LiveVectors : \A y \in LiveVectors :
        (x.length >= OmpMinSize /\ y.length = x.length) =>
            /\ OmpOutcomes(m, "inc", 1, x, x) = {OmpSequential(m, "inc", 1, x, x, 0)}
            /\ OmpOutcomes(m, "mul", 1, x, y) = {OmpSequential(m, "mul", 1, x, y, 0)}

ViewCells(v) == IF v.kind = "vector" THEN VectorCells(v) ELSE MatrixCells(v)

\* C25: for every vector or matrix x, scal with alpha = -1 negates every
\* element of the view and changes no other element of the buffer, and
\* applied twice it restores every element of x.
C25_Negation ==
    \A m \in Mems : \A v \in Live :
        LET once == ElementaryResult(m, "scal", v, Num(0 - 1), NotFunction)
            twice == ElementaryResult(once.mem, "scal", v, Num(0 - 1), NotFunction)
        IN  /\ once.status = "ok" /\ twice.status = "ok"
            /\ \A p \in AllCells :
                  once.mem[p[1]].vals[p[2]] =
                      IF p \in ViewCells(v) THEN 0 - m[p[1]].vals[p[2]]
                      ELSE m[p[1]].vals[p[2]]
            /\ twice.mem = m

\* scal has negated the nonzero elements of a view of a buffer that has a
\* nonzero element outside the view
C25_Witness ==
    /\ last.op = "scal" /\ last.status = "ok"
    /\ \E v \in Live : \E p \in ViewCells(v) : \E q \in AllCells \ ViewCells(v) :
          /\ bufs[p[1]].vals[p[2]] = 0 - MaxVal
          /\ bufs[q[1]].vals[q[2]] = MaxVal

\* the doubles that a call with stride 1 goes through
CallCells(X, c) == {<<X.data, c.x + k>> : k \in 1..c.size}

\* C26: an elementary operation on a matrix view applies the kernel exactly
\* once to every element of the view and to no other element of the buffer,
\* in both storage orders: the collapsed call over rows * cols elements is
\* taken only when ld equals the minor extent, and then covers exactly the
\* elements of the view; otherwise one call with stride 1 per major index
\* covers the minor-extent elements of this index, and the elements of the
\* parent outside a sub-view keep their values.
C26_OncePerElement ==
    \A m \in Mems : \A X \in LiveMatrices :
        LET calls == ElementaryCalls(X)
            inc == ElementaryResult(m, "inc", X, NoArg, NotFunction)
        IN  /\ Len(calls) = (IF X.ld = Minor(X) THEN 1 ELSE Major(X))
            /\ X.ld = Minor(X) => calls[1].size = X.rows * X.cols
            /\ X.ld # Minor(X) =>
                  \A i \in 1..Major(X) :
                      CallCells(X, calls[i]) =
                          {<<X.data, MatrixAddr(X, IF X.order = "row" THEN i ELSE j,
                                                IF X.order = "row" THEN j ELSE i)>> :
                              j \in 1..Minor(X)}
            /\ UNION {CallCells(X, calls[i]) : i \in 1..Len(calls)} = MatrixCells(X)
            /\ \A i \in 1..Len(calls) : \A j \in 1..Len(calls) :
                  i # j => CallCells(X, calls[i]) \cap CallCells(X, calls[j]) = {}
            /\ inc.status = "ok"
            /\ \A p \in AllCells :
                  inc.mem[p[1]].vals[p[2]] =
                      IF p \in MatrixCells(X) THEN m[p[1]].vals[p[2]] + 1
                      ELSE m[p[1]].vals[p[2]]

\* inc has run on a col-major sub-view of two columns of one element, and
\* the elements of the parent outside it are as they were
C26_Witness ==
    /\ last.op = "inc" /\ last.status = "ok"
    /\ \E X \in LiveMatrices :
          /\ X.order = "col" /\ X.ld > Minor(X) /\ Major(X) = 2
          /\ Len(ElementaryCalls(X)) = 2
          /\ \A p \in AllCells :
                bufs[p[1]].vals[p[2]] = (IF p \in MatrixCells(X) THEN 1 ELSE 0)

\* C27: for a binary operation with a vector x and a matrix Y that passes
\* validation, the kernel is called once per major index of the requested
\* order (Y.rows times for "row", Y.cols times for "col"), each time with the
\* whole of x and exactly the elements of that logical row (column) of Y,
\* with stride 1 when the requested order is the physical order of Y and
\* stride Y.ld otherwise; the resulting logical values of Y do not depend on
\* the physical order of Y.
C27_PerMajorIndex ==
    \A x \in LiveVectors : \A Y \in LiveMatrices : \A order \in Orders :
        BinaryVectorMatrixStatus("axpy", x, Y, order, Num(1)) = "ok" =>
            LET calls == BinaryVectorMatrixCalls(x, Y, order)
                after == BinaryVectorMatrixMem(Tokens, "axpy", x, Y, order, Num(1), "up")
            IN
            /\ Len(calls) = (IF order = "row" THEN Y.rows ELSE Y.cols)
            /\ \A i \in 1..Len(calls) :
                  /\ calls[i].size = x.length
                  /\ calls[i].x = x.values /\ calls[i].incx = x.inc
                  /\ calls[i].incy = (IF order = Y.order THEN 1 ELSE Y.ld)
                  /\ \A k \in 1..x.length :
                        calls[i].y + (k - 1) * calls[i].incy + 1 =
                            (IF order = "row" THEN MatrixAddr(Y, i, k) ELSE MatrixAddr(Y, k, i))
            /\ VectorCells(x) \cap MatrixCells(Y) = {} =>
                  /\ \A r \in 1..Y.rows : \A c \in 1..Y.cols :
                        MatrixGet(after, Y, r, c) =
                            MatrixGet(Tokens, Y, r, c)
                               + VectorIndex(Tokens, x, IF order = "row" THEN c ELSE r)
                  /\ \A p \in AllCells :
                        p \notin MatrixCells(Y) => after[p[1]].vals[p[2]] = Tokens[p[1]].vals[p[2]]

\* swap has gone through the two rows of a col-major matrix of one column
\* with a vector of one element: the element is in the first row
C27_Witness ==
    /\ last.op = "swap" /\ last.status = "ok"
    /\ \E x \in LiveVectors : \E Y \in LiveMatrices :
          /\ Y.order = "col" /\ Y.rows = 2 /\ Y.cols = 1 /\ x.length = 1
          /\ VectorCells(x) \cap MatrixCells(Y) = {}
          /\ Len(BinaryVectorMatrixCalls(x, Y, "row")) = 2
          /\ MatrixGet(bufs, Y, 1, 1) = 1 /\ MatrixGet(bufs, Y, 2, 1) = 0
          /\ VectorIndex(bufs, x, 1) = 0

\* C28: apply calls the callback through the handle of the apply invocation
\* that is running the loop: when the callback of an outer apply runs another
\* apply, on the same or on another interpreter thread, then after the inner
\* apply returns the outer loop goes on calling its own callback on its own
\* handle for the remaining elements, and stores each result in the element
\* it was computed from.
C28_OwnHandle ==
    \A x \in LiveVectors : \A y \in LiveVectors :
    \A at \in 1..x.length : \A thread \in Threads :
        \A r \in ApplyNestedRuns(bufs, x, y, at, thread) :
            /\ r.status = "ok"
            /\ r.TL = "main"
            /\ VectorCells(x) \cap VectorCells(y) = {} =>
                  \A p \in AllCells :
                      r.mem[p[1]].vals[p[2]] =
                          IF p \in VectorCells(x) \cup VectorCells(y)
                          THEN CallbackValue(bufs[p[1]].vals[p[2]])
                          ELSE bufs[p[1]].vals[p[2]]

\* the quantiles looked up: below, between, at and above the doubles of x
Quantiles == (0 - 9)..3

\* the search of rank for a quantile strictly inside the sorted copy s ends
\* within Len(s) steps with indices inside s, upper + 1 = lower and
\* s[upper] < quantile <= s[lower]
RankSearchEnds(s, quantile) ==
    LET b == RankSearch(s, quantile, 0, Len(s) - 1, 0) IN
    /\ b.status = "done"
    /\ b.steps <= Len(s)
    /\ b.lower <= Len(s) - 1 /\ b.upper <= Len(s) - 1
    /\ b.upper + 1 = b.lower
    /\ s[b.upper + 1] < quantile /\ quantile <= s[b.lower + 1]
    /\ s[b.lower + 1] - s[b.upper + 1] > 0

C30_Interpolant ==
    \A S \in LiveSplines : \A t \in Arguments :
        LET xs == bufs[S.data].vals
            n == S.length
            r == InterpolantResult(xs, S.order, t)
        IN  /\ Len(xs) = n + 1
            /\ \A i \in 1..n : xs[i] < xs[i + 1]
            /\ (xs[1] <= t /\ t <= xs[n + 1]) =>
                  /\ r.branch = "interpolation" /\ r.status = "ok"
                  /\ r.search.status = "done" /\ r.search.steps <= n
                  /\ r.search.lower = r.search.upper + 1 /\ r.search.lower <= n
                  /\ 0 <= r.k /\ r.k <= n - 1
                  /\ xs[r.k + 1] <= t /\ t <= xs[r.k + 2]
                  /\ t = xs[n + 1] => r.k = n - 1
                  /\ t < xs[n + 1] => t < xs[r.k + 2]
            /\ ~(xs[1] <= t /\ t <= xs[n + 1]) =>
                  /\ r.branch # "interpolation"
                  /\ S.order = "none" => r.status \in {"too small", "too large"}
                  /\ r.status = "too small" <=> (S.order = "none" /\ t < xs[1])
                  /\ r.status = "too large" <=> (S.order = "none" /\ t > xs[n + 1])
                  /\ S.order # "none" => r.status = "ok"

\* the interpolant of a spline of three polynomials without extrapolation
\* has returned a value, and its last knot is in the last polynomial
C30_Witness ==
    /\ last.op = "interpolant" /\ last.status = "ok"
    /\ \E S \in LiveSplines :
          /\ S.length = 3 /\ S.order = "none"
          /\ InterpolantResult(bufs[S.data].vals, S.order, bufs[S.data].vals[4]).k = 2
          /\ InterpolantResult(bufs[S.data].vals, S.order, bufs[S.data].vals[1]).search.steps = 2

\* the sum of the numbers of a sequence
RECURSIVE SeqSum(_)
SeqSum(q) == IF Len(q) = 0 THEN 0 ELSE Head(q) + SeqSum(Tail(q))

\* the elements of logical row i (order "row") or column i (order "col") of
\* X as read on the allocations m
Line(m, X, order, i) ==
    IF order = "row"
    THEN [c \in 1..X.cols |-> MatrixGet(m, X, i, c)]
    ELSE [r \in 1..X.rows |-> MatrixGet(m, X, r, i)]

\* the allocations with a different power of 2 in every double: a sum tells
\* which doubles were added
Powers ==
    [b \in BufIds |->
        [bufs[b] EXCEPT !.vals =
            [k \in 1..bufs[b].size |-> 2 ^ ((b - 1) * MaxDoubles + k - 1)]]]

\* sum(X, y, order) on the allocations m does what C17 says
C17_Sum(m, X, y, order) ==
    LET n == IF order = "row" THEN X.rows ELSE X.cols
        status == UnaryMatrixStatus("sum", X, y, order, <<>>)
        after == UnaryMatrixMem(m, "sum", X, y, order, <<>>)
    IN
    IF y.length = n
    THEN /\ status = "ok"
         /\ \A i \in 1..n : VectorIndex(after, y, i) = SeqSum(Line(m, X, order, i))
         /\ MatrixValues(after, X) = MatrixValues(m, X)
         /\ \A b \in BufIds : \A k \in DOMAIN m[b].vals :
               <<b, k>> \notin VectorCells(y) => after[b].vals[k] = m[b].vals[k]
    ELSE /\ status = "dimension mismatch"
         /\ after = m

\* C17 as stated: unary(X, y, order) with order "row" requires
\* length(y) = X.rows and sets y[i] to the value over the X.cols elements of
\* row i, with order "col" it requires length(y) = X.cols and sets y[j] to
\* the value over the X.rows elements of column j; a length mismatch is
\* "dimension mismatch" with y unchanged; X is not modified and its storage
\* order does not matter; for any vector y.
C17_AnyOutput ==
    \A m \in {bufs, Powers} : \A X \in LiveMatrices : \A y \in LiveVectors :
        \A order \in Orders : C17_Sum(m, X, y, order)

\* C17: the same for a vector y that shares no element with X.
C17_MatrixForm ==
    \A m \in {bufs, Powers} : \A X \in LiveMatrices : \A y \in LiveVectors :
        \A order \in Orders :
            VectorCells(y) \cap MatrixCells(X) = {} => C17_Sum(m, X, y, order)

\* sum has just filled a strided vector y from a sub-view X whose leading
\* dimension exceeds its minor extent, and y holds a value other than 0
C17_Witness ==
    /\ last.op = "sum" /\ last.status = "ok"
    /\ \E X \in LiveMatrices : \E y \in LiveVectors :
          /\ X.ld > (IF X.order = "row" THEN X.cols ELSE X.rows)
          /\ y.inc >= 2 /\ y.length = 2
          /\ VectorCells(y) \cap MatrixCells(X) = {}
          /\ \E order \in Orders :
                /\ UnaryMatrixStatus("sum", X, y, order, <<>>) = "ok"
                /\ UnaryMatrixMem(bufs, "sum", X, y, order, <<>>) = bufs
          /\ VectorIndex(bufs, y, 1) = 1

\* the variance of the numbers of the sequence q with the ddof d: the sum of
\* the squared differences from the mean, divided by Len(q) - d
RECURSIVE SquaredDiffs(_, _)
SquaredDiffs(q, mean) ==
    IF Len(q) = 0 THEN <<0, 1>>
    ELSE RatAdd(RatMul(RatSub(<<Head(q), 1>>, mean), RatSub(<<Head(q), 1>>, mean)),
                SquaredDiffs(Tail(q), mean))
Variance(q, d) == RatDiv(SquaredDiffs(q, <<SeqSum(q), Len(q)>>), Len(q) - d)

C18_Value ==
    \A m \in {bufs, Tokens} : \A x \in LiveVectors : \A d \in 0..(x.length - 1) :
        /\ UnaryStatus("var", x, <<d>>) = "ok"
        /\ ~UnaryValue(m, "var", x, <<d>>).root
        /\ RatEq(UnaryValue(m, "var", x, <<d>>).of, Variance(VectorValues(m, x), d))
        /\ \A z \in LiveVectors :
              (m = bufs /\ z.inc # x.inc /\ VectorValues(m, z) = VectorValues(m, x))
                 => RatEq(UnaryValue(m, "var", z, <<d>>).of,
                          UnaryValue(m, "var", x, <<d>>).of)

\* with no matrix the call was var(x, ddof), which changes no double
C18_Step ==
    (last'.op = "var" /\ LiveMatrices = {}) => bufs' = bufs

\* C18: for a vector x of length n, of stride 1 or strided, and 0 <= d < n,
\* var(x, d) is the sum of (x_i - mean)^2 divided by n - d with mean the sum
\* of the x_i divided by n; the strided and the unit-stride path give the
\* same value for the same elements; x is not modified.
C18_Variance == []C18_Value /\ [][C18_Step]_vars

\* var has just returned for a strided vector (1, 0), whose variance is 1/2
\* with ddof 1 and 1/4 with ddof 0
C18_Witness ==
    /\ last.op = "var" /\ last.status = "ok"
    /\ \E x \in LiveVectors :
          /\ x.inc >= 2 /\ x.length = 2
          /\ VectorValues(bufs, x) = <<1, 0>>
          /\ RatEq(UnaryValue(bufs, "var", x, <<1>>).of, <<1, 2>>)
          /\ RatEq(UnaryValue(bufs, "var", x, <<>>).of, <<1, 4>>)

\* C7: tvector(X, j) of a row-major X needs 1 <= j <= cols, has length rows
\* and its element k is element (k, j) of X; of a col-major X it needs
\* 1 <= j <= rows, has length cols and its element k is element (j, k); the
\* stride is the leading dimension of X; any other j is a "bad index" error.
C7_Tvector ==
    \A X \in LiveMatrices : \A j \in LuaInts :
        LET r == TvectorResult(X, j)
            n == IF X.order = "row" THEN X.cols ELSE X.rows
            len == IF X.order = "row" THEN X.rows ELSE X.cols
        IN
        IF j \in 1..n
        THEN /\ r.status = "ok"
             /\ r.view.kind = "vector"
             /\ r.view.data = X.data
             /\ r.view.inc = X.ld
             /\ r.view.length = len
             /\ \A k \in 1..len :
                   VectorAddr(r.view, k) =
                       (IF X.order = "row" THEN MatrixAddr(X, k, j) ELSE MatrixAddr(X, j, k))
        ELSE r = Err("bad index")

\* tvector has just pushed a vector of a sub-view whose leading dimension
\* exceeds its minor extent
C7_Witness ==
    /\ last.op = "tvector" /\ last.status = "ok"
    /\ last.res.length >= 2
    /\ \E X \in LiveMatrices :
          /\ X.ld > (IF X.order = "row" THEN X.cols ELSE X.rows)
          /\ \E j \in LuaInts : TvectorResult(X, j) = Ok(last.res)

====
